---- MODULE Spec2Model ----
(***************************************************************************)
(* Shadow-WAL capture engine of litestream (src/db.go).                    *)
(*                                                                         *)
(* Files are modelled by their structure: a WAL file (live or shadow) is a *)
(* 32-byte header followed by whole frames; byte sizes are computed from   *)
(* that structure and fed through frameAlign as the code does.  A checksum *)
(* is an ideal running hash (injective on the chain it covers).  The       *)
(* database engine (SQLite) is the environment: writers append committed   *)
(* transactions at the wal-index's mxFrame, a completed checkpoint makes   *)
(* the next writer restart the WAL under a fresh header, and a held write  *)
(* lock excludes every other writer.                                       *)
(***************************************************************************)
EXTENDS Integers, Sequences, FiniteSets, TLC

(***************************************************************************)
(* Bounds of the model.                                                    *)
(***************************************************************************)
\* Largest number of frames the live WAL file may hold.
MaxFrames == 3
\* Number of distinct WAL headers (salts) SQLite may write.
MaxSalt == 3
\* Number of generation ids createGeneration may draw.
MaxGen == 3
\* Injected failures and third-party file interferences per behaviour.
MaxFault == 1
\* Calls of Checkpoint and CRC64 per behaviour.
MaxCall == 1
\* Page size reported by PRAGMA page_size.
PageSize == 512
\* Scaled stand-in for MaxIndex = 0x7FFFFFFF (src/db.go:38): the largest
\* shadow WAL index before a new generation must be started.
MaxIndex == 2

(***************************************************************************)
(* Program constants.                                                      *)
(***************************************************************************)
WALHeaderSize == 32
WALFrameHeaderSize == 24
GenerationNameLen == 16
\* DB.MinCheckpointPageN / DB.MaxCheckpointPageN, scaled from the defaults
\* 1000 / 10000 so that both thresholds are met within MaxFrames.
MinCheckpointPageN == 2
MaxCheckpointPageN == 3

\* headerByteOrder: the two magic values (0x377f0682, 0x377f0683).
WALMagicLE == 931071618
WALMagicBE == 931071619

headerByteOrder(hdr) ==
  IF hdr.magic = WALMagicLE THEN "little"
  ELSE IF hdr.magic = WALMagicBE THEN "big"
  ELSE "invalid"

(***************************************************************************)
(* Pure helpers.                                                           *)
(***************************************************************************)
FrameSize == WALFrameHeaderSize + PageSize

\* frameAlign that rounds up to the end of the frame the offset falls in.
frameAlignUp(offset, pageSize) ==
  IF offset < WALHeaderSize THEN 0
  ELSE LET frameSize == WALFrameHeaderSize + pageSize
           frameN == ((offset - WALHeaderSize) + (frameSize - 1)) \div frameSize
       IN (frameN * frameSize) + WALHeaderSize

\* frameAlign returns a frame-aligned offset; zero below the header size.
frameAlign(offset, pageSize) ==
  IF offset < WALHeaderSize THEN 0
  ELSE LET frameSize == WALFrameHeaderSize + pageSize
           frameN == (offset - WALHeaderSize) \div frameSize
       IN (frameN * frameSize) + WALHeaderSize

\* calcWALSize: byte size of a WAL holding n pages.
calcWALSize(pageSize, n) == WALHeaderSize + ((WALFrameHeaderSize + pageSize) * n)

\* Running checksum: an ideal hash of (seed, word), injective for word < 7.
Checksum(seed, word) == (seed * 8) + word + 1

\* A file shorter than a header has no header.
NoHdr == [magic |-> 0, salt |-> 0, ck |-> 0]
\* The header SQLite writes for salt s; its checksum covers the first 24 bytes.
Hdr(s) == [magic |-> WALMagicLE, salt |-> s, ck |-> Checksum(0, s)]

\* The frame SQLite writes after running checksum prev.
MkFrame(prev, salt, commit, data) ==
  [commit |-> commit, salt |-> salt, data |-> data,
   ck |-> Checksum(Checksum(prev, commit), data)]

\* Byte size of a file made of a header and whole frames.
FileSize(f) == IF f.hdr = NoHdr THEN 0 ELSE WALHeaderSize + (Len(f.frames) * FrameSize)

\* Number of whole frames below byte offset off.
FrameN(off) == (off - WALHeaderSize) \div FrameSize

Max(S) == CHOOSE x \in S : \A y \in S : y <= x
Min(S) == CHOOSE x \in S : \A y \in S : x <= y

(***************************************************************************)
(* State.                                                                  *)
(***************************************************************************)
VARIABLES
  dbFile,     \* the database file exists
  tables,     \* _litestream_seq and _litestream_lock exist in the database
  wal,        \* live WAL file: [exists, hdr, frames]
  mx,         \* SQLite's mxFrame: number of valid frames of the live WAL
  walReset,   \* the WAL is fully checkpointed: the next writer restarts it
  nextSalt,   \* salt of the next header SQLite writes
  conn,       \* db.db # nil
  rtx,        \* db.rtx # nil: the long-lived read transaction is held
  pageSize,   \* db.pageSize (0 until init has read it)
  wlock,      \* the tick's write transaction holds the write lock
  genFile,    \* content of the "generation" pointer file, or NoFile
  gens,       \* generations/: generation id -> (index -> shadow segment)
  nextGen,    \* next generation id createGeneration draws
  pc,         \* position of the call in flight ("idle": none, mu free;
              \* "done": returned, mu not yet released)
  op,         \* the call in flight: sync, crc64, checkpoint
  changed,    \* Sync's local "changed"
  ck,         \* checkpointAndInit's locals: [mode, gen, idx, hdr]
  ret,        \* result of the call at "done": "ok" or "err" ("none" before)
  notifyN,    \* closes of db.notify by the call in flight
  closed,     \* SoftClose has run
  faults,     \* injected failures and third-party interferences so far
  calls,      \* calls of Checkpoint and CRC64 so far
  ghost       \* history kept for the properties, not read by the program

\* State of the operations that are followed on their own, apart from the
\* tick: each is at its initial value wherever it is not followed.
VARIABLES
  reader,     \* the last call of ShadowWALReader: [pos, res], NoReader if none
  pruned,     \* the last call of cleanWAL: [called, before, positions]
  mu,         \* db.mu: [w: the goroutine holding it for writing, r: the readers]
  proc,       \* goroutine -> [pc, op]: the monitor and the external callers
  ctl,        \* shutdown: [ctxDone, replicas, closer, closeOp, dbClosed]
  restore,    \* RestoreReplica: its position, options and files
  boot,       \* init: [out, metaDir], the outcome of its last run
  notify,     \* db.notify: [ch, closed, ret], the channel, the closes of each
              \* channel, and what Notify() last returned to each caller
  decision,   \* the checkpoint decision of a tick: its inputs and its result
  creation,   \* createGeneration: its position, the temporary pointer file,
              \* the store it found and what readers of the pointer saw
  copy,       \* the copy of a tick, byte by byte: the bytes of a partial frame
              \* at the end of the current segment and how the tick ended
  align,      \* frameAlign: its arguments and its result
  posCall     \* Pos(), read by read: its position and what it has read so far

traceVars == <<copy, align, posCall>>
unitVars == <<boot, notify, decision, creation, traceVars>>
engineVars == <<dbFile, tables, wal, mx, walReset, nextSalt, conn, rtx, pageSize, wlock,
                genFile, gens, nextGen, pc, op, changed, ck, ret, notifyN, closed,
                faults, calls, ghost>>
sideVars == <<reader, pruned, mu, proc, ctl, restore, unitVars>>
lockVars == <<mu, proc, ctl>>
vars == <<engineVars, sideVars>>

envVars == <<dbFile, tables, wal, mx, walReset, nextSalt>>
storeVars == <<genFile, gens, nextGen>>
callVars == <<pc, op, changed, ck, ret, notifyN>>

(***************************************************************************)
(* Shadow store: paths, pointer file, index (pure filesystem reads).       *)
(***************************************************************************)
NoFile == <<-1>>
NoGen == 0
\* A character that is no hex digit: the newline ending the pointer file.
NL == 16

\* hex.EncodeToString of the 8 bytes drawn for generation g: 16 hex digits.
GenName(g) == [i \in 1..GenerationNameLen |-> IF i = GenerationNameLen THEN g ELSE 0]

RECURSIVE TrimRight(_)
TrimRight(s) == IF Len(s) > 0 /\ s[Len(s)] = NL THEN TrimRight(SubSeq(s, 1, Len(s) - 1)) ELSE s
RECURSIVE TrimLeft(_)
TrimLeft(s) == IF Len(s) > 0 /\ s[1] = NL THEN TrimLeft(Tail(s)) ELSE s
\* strings.TrimSpace
TrimSpace(s) == TrimLeft(TrimRight(s))

\* CurrentGeneration: the name saved in the pointer file, NoGen if none.
CurrentGenerationOf(file) ==
  IF file = NoFile THEN NoGen
  ELSE LET generation == TrimSpace(file)
       IN IF Len(generation) # GenerationNameLen THEN NoGen
          ELSE generation[GenerationNameLen]

CurrentGeneration == CurrentGenerationOf(genFile)

\* CurrentShadowWALIndex: highest index of a segment file, 0 if none.
CurrentShadowWALIndexOf(gs, generation) ==
  IF generation \notin DOMAIN gs THEN 0
  ELSE Max(DOMAIN gs[generation] \cup {0})

CurrentShadowWALIndex(generation) == CurrentShadowWALIndexOf(gens, generation)

SegExists(gs, g, i) == g \in DOMAIN gs /\ i \in DOMAIN gs[g]

\* The store gs with segment (g, i) written as seg (mkdirAll of its directory).
PutSeg(gs, g, i, seg) ==
  LET old == IF g \in DOMAIN gs THEN gs[g] ELSE << >>
      dir == [x \in DOMAIN old \cup {i} |-> IF x = i THEN seg ELSE old[x]]
  IN [y \in DOMAIN gs \cup {g} |-> IF y = g THEN dir ELSE gs[y]]

\* Pos: the current position, read from disk.
PosOf(file, gs, ps) ==
  LET generation == CurrentGenerationOf(file) IN
  IF generation = NoGen THEN [gen |-> NoGen, index |-> 0, offset |-> 0]
  ELSE LET index == CurrentShadowWALIndexOf(gs, generation) IN
       IF ~SegExists(gs, generation, index)
       THEN [gen |-> generation, index |-> index, offset |-> 0]
       ELSE [gen |-> generation, index |-> index,
             offset |-> frameAlign(FileSize(gs[generation][index]), ps)]

Pos == PosOf(genFile, gens, pageSize)


(***************************************************************************)
(* The database engine's writes to the live WAL.                           *)
(***************************************************************************)
NoWAL == [exists |-> FALSE, hdr |-> NoHdr, frames |-> << >>]

\* The engine-side state of the live WAL, as one value.
Sq == [wal |-> wal, mx |-> mx, reset |-> walReset, salt |-> nextSalt]

\* A write restarts the WAL (fresh header, frames from the start) when the
\* file has no header or the WAL is fully checkpointed.
WillRestart(q) == q.wal.hdr = NoHdr \/ q.reset

RECURSIVE Chain(_, _, _, _)
\* The frames of one transaction: flags[i] is frame i's commit field.
Chain(prev, salt, flags, k) ==
  IF k > Len(flags) THEN << >>
  ELSE LET f == MkFrame(prev, salt, flags[k], 1)
       IN <<f>> \o Chain(f.ck, salt, flags, k + 1)

\* The live WAL file after SQLite writes frames at mxFrame; frames of the
\* file beyond the written ones stay as they are.
SqliteWritten(q, flags) ==
  LET base == IF WillRestart(q) THEN 0 ELSE q.mx
      hdr == IF WillRestart(q) THEN Hdr(q.salt) ELSE q.wal.hdr
      prev == IF base = 0 THEN hdr.ck ELSE q.wal.frames[base].ck
      new == Chain(prev, hdr.salt, flags, 1)
  IN [exists |-> TRUE, hdr |-> hdr,
      frames |-> SubSeq(q.wal.frames, 1, base) \o new
                 \o SubSeq(q.wal.frames, base + Len(new) + 1, Len(q.wal.frames))]

\* The model's bounds allow the write.
CanWrite(q, n) ==
  /\ (IF WillRestart(q) THEN 0 ELSE q.mx) + n <= MaxFrames
  /\ WillRestart(q) => q.salt <= MaxSalt

\* A committed transaction (the last frame carries the commit).
SqliteCommit(q, flags) ==
  [wal |-> SqliteWritten(q, flags),
   mx |-> (IF WillRestart(q) THEN 0 ELSE q.mx) + Len(flags),
   reset |-> FALSE,
   salt |-> IF WillRestart(q) THEN q.salt + 1 ELSE q.salt]

SetSq(q) ==
  /\ wal' = q.wal
  /\ mx' = q.mx
  /\ walReset' = q.reset
  /\ nextSalt' = q.salt

(***************************************************************************)
(* Frame copy.                                                             *)
(***************************************************************************)
\* readLastChecksumFrom: the checksum stored in the last full frame, or the
\* header's checksum when the file holds no more than a header.
readLastChecksumFrom(seg, ps) ==
  IF FileSize(seg) > WALHeaderSize
  THEN seg.frames[FrameN(frameAlign(FileSize(seg), ps))].ck
  ELSE seg.hdr.ck

RECURSIVE ScanFramesAnyFrame(_, _, _, _, _)
\* The validation loop without the test of the commit field: every valid
\* frame counts as the end of a transaction.
ScanFramesAnyFrame(live, hsalt, k, chksum, last) ==
  IF k > Len(live.frames) THEN last
  ELSE LET f == live.frames[k]
           c == Checksum(Checksum(chksum, f.commit), f.data)
       IN IF f.salt # hsalt THEN last
          ELSE IF c # f.ck THEN last
          ELSE ScanFramesAnyFrame(live, hsalt, k + 1, c, k)

RECURSIVE ScanFramesNoChecksum(_, _, _, _, _)
\* The validation loop without the test of the frame checksum.
ScanFramesNoChecksum(live, hsalt, k, chksum, last) ==
  IF k > Len(live.frames) THEN last
  ELSE LET f == live.frames[k]
       IN IF f.salt # hsalt THEN last
          ELSE ScanFramesNoChecksum(live, hsalt, k + 1, f.ck,
                                    IF f.commit # 0 THEN k ELSE last)

RECURSIVE ScanFrames(_, _, _, _, _)
\* The validation loop of copyToShadowWAL over the live frames from number k
\* on: returns the number of the last frame that ends a commit (last if none).
ScanFrames(live, hsalt, k, chksum, last) ==
  IF k > Len(live.frames) THEN last
  ELSE LET f == live.frames[k]
           c == Checksum(Checksum(chksum, f.commit), f.data)
       IN IF f.salt # hsalt THEN last
          ELSE IF c # f.ck THEN last
          ELSE ScanFrames(live, hsalt, k + 1, c, IF f.commit # 0 THEN k ELSE last)

\* copyToShadowWAL copying no frame.
copyToShadowWALNone(seg, live, ps) ==
  IF ~live.exists \/ FileSize(seg) < WALHeaderSize \/ headerByteOrder(seg.hdr) = "invalid"
  THEN [err |-> TRUE, seg |-> seg, newSize |-> 0]
  ELSE [err |-> FALSE, seg |-> seg, newSize |-> frameAlign(FileSize(seg), ps)]

\* copyToShadowWAL: [err, seg, newSize], seg being the shadow file afterwards.
copyToShadowWAL(seg, live, ps) ==
  IF ~live.exists \/ FileSize(seg) < WALHeaderSize \/ headerByteOrder(seg.hdr) = "invalid"
  THEN [err |-> TRUE, seg |-> seg, newSize |-> 0]
  ELSE LET origSize == frameAlign(FileSize(seg), ps)
           orig == FrameN(origSize)
           last == ScanFrames(live, seg.hdr.salt, orig + 1,
                              readLastChecksumFrom(seg, ps), orig)
           lastCommitSize == origSize + ((last - orig) * FrameSize)
       IN [err |-> FALSE,
           seg |-> [seg EXCEPT !.frames = SubSeq(seg.frames, 1, orig)
                                           \o SubSeq(live.frames, orig + 1, last)],
           newSize |-> lastCommitSize]

\* initShadowWALFile: [err, wrote, seg, newSize]; wrote tells whether the file
\* was written at all.
initShadowWALFile(live, ps) ==
  IF ~live.exists \/ live.hdr = NoHdr \/ headerByteOrder(live.hdr) = "invalid"
     \/ Checksum(0, live.hdr.salt) # live.hdr.ck
  THEN [err |-> TRUE, wrote |-> FALSE, seg |-> NoWAL, newSize |-> 0]
  ELSE LET c == copyToShadowWAL([exists |-> TRUE, hdr |-> live.hdr, frames |-> << >>], live, ps)
       IN [err |-> c.err, wrote |-> TRUE, seg |-> c.seg, newSize |-> c.newSize]

(***************************************************************************)
(* Verification of the shadow WAL against the live WAL.                    *)
(***************************************************************************)
Info0 == [generation |-> NoGen, walSize |-> 0, shadowIdx |-> 0, shadowWALSize |-> 0,
          restart |-> FALSE, reason |-> "", err |-> FALSE]

\* verify without the comparison of the last synced page.
verifyNoLastPage(file, gs, live, ps) ==
  LET generation == CurrentGenerationOf(file) IN
  IF generation = NoGen THEN [Info0 EXCEPT !.reason = "no generation exists"]
  ELSE IF ~live.exists THEN [Info0 EXCEPT !.generation = generation, !.err = TRUE]
  ELSE
    LET index == CurrentShadowWALIndexOf(gs, generation)
        i1 == [Info0 EXCEPT !.generation = generation, !.walSize = FileSize(live)]
    IN
    IF index >= MaxIndex THEN [i1 EXCEPT !.reason = "max index exceeded"]
    ELSE IF ~SegExists(gs, generation, index)
    THEN [i1 EXCEPT !.shadowIdx = index, !.reason = "no shadow wal"]
    ELSE
      LET seg == gs[generation][index]
          i2 == [i1 EXCEPT !.shadowIdx = index,
                           !.shadowWALSize = frameAlign(FileSize(seg), ps)]
      IN
      IF i2.shadowWALSize < WALHeaderSize THEN [i2 EXCEPT !.reason = "short shadow wal"]
      ELSE IF i2.shadowWALSize > i2.walSize
      THEN [i2 EXCEPT !.reason = "wal truncated by another process"]
      ELSE
        LET i3 == [i2 EXCEPT !.restart = (live.hdr # seg.hdr)]
        IN
        IF i3.shadowWALSize = WALHeaderSize /\ i3.restart
        THEN [i3 EXCEPT !.reason = "wal header only, mismatched"]
        ELSE i3

\* verify: the syncInfo of the tick.
verify(file, gs, live, ps) ==
  LET generation == CurrentGenerationOf(file) IN
  IF generation = NoGen THEN [Info0 EXCEPT !.reason = "no generation exists"]
  ELSE IF ~live.exists THEN [Info0 EXCEPT !.generation = generation, !.err = TRUE]
  ELSE
    LET index == CurrentShadowWALIndexOf(gs, generation)
        i1 == [Info0 EXCEPT !.generation = generation, !.walSize = FileSize(live)]
    IN
    IF index >= MaxIndex THEN [i1 EXCEPT !.reason = "max index exceeded"]
    ELSE IF ~SegExists(gs, generation, index)
    THEN [i1 EXCEPT !.shadowIdx = index, !.reason = "no shadow wal"]
    ELSE
      LET seg == gs[generation][index]
          i2 == [i1 EXCEPT !.shadowIdx = index,
                           !.shadowWALSize = frameAlign(FileSize(seg), ps)]
      IN
      IF i2.shadowWALSize < WALHeaderSize THEN [i2 EXCEPT !.reason = "short shadow wal"]
      ELSE IF i2.shadowWALSize > i2.walSize
      THEN [i2 EXCEPT !.reason = "wal truncated by another process"]
      ELSE
        LET i3 == [i2 EXCEPT !.restart = (live.hdr # seg.hdr)]
            n == FrameN(i3.shadowWALSize)
        IN
        IF i3.shadowWALSize = WALHeaderSize /\ i3.restart
        THEN [i3 EXCEPT !.reason = "wal header only, mismatched"]
        ELSE IF i3.shadowWALSize > WALHeaderSize /\ live.frames[n] # seg.frames[n]
        THEN [i3 EXCEPT !.reason = "wal overwritten by another process"]
        ELSE i3

(***************************************************************************)
(* Pruning.                                                                *)
(***************************************************************************)
\* cleanGenerations removing nothing.
cleanGenerationsNone(file, gs) == gs

\* cleanGenerations: every generation directory but the current one goes.
cleanGenerations(file, gs) ==
  [g \in DOMAIN gs \cap {CurrentGenerationOf(file)} |-> gs[g]]

\* Replica.LastPos(): no position yet, or one in the current generation that
\* Pos has returned.
NoPos == [gen |-> NoGen, index |-> 0]
LastPositions(file, gs) ==
  LET generation == CurrentGenerationOf(file)
  IN {NoPos} \cup
     (IF generation = NoGen THEN {}
      ELSE {[gen |-> generation, index |-> i] :
              i \in 0..CurrentShadowWALIndexOf(gs, generation)})

\* The lowest index of the replicas' positions, whatever their generation.
MinReplicaIndexAnyGeneration(generation, positions) ==
  IF positions = {} THEN 0 - 1
  ELSE Min({p.index : p \in positions})

\* The lowest index replicated to all replicas (positions of another
\* generation count as 0), -1 without replicas.
MinReplicaIndex(generation, positions) ==
  IF positions = {} THEN 0 - 1
  ELSE Min({IF p.gen # generation THEN 0 ELSE p.index : p \in positions})

\* cleanWAL removing every segment up to the lowest replicated index, that
\* index included.
cleanWALThroughMin(file, gs, positions) ==
  LET generation == CurrentGenerationOf(file)
      min == MinReplicaIndex(generation, positions)
  IN IF min <= 0 \/ generation \notin DOMAIN gs THEN gs
     ELSE [gs EXCEPT ![generation] =
             [i \in {j \in DOMAIN gs[generation] : j > min} |-> gs[generation][i]]]

\* cleanWAL: segments below the lowest replicated index, less one, go.
cleanWAL(file, gs, positions) ==
  LET generation == CurrentGenerationOf(file)
      min == MinReplicaIndex(generation, positions)
  IN IF min <= 0 \/ generation \notin DOMAIN gs THEN gs
     ELSE [gs EXCEPT ![generation] =
             [i \in {j \in DOMAIN gs[generation] : j >= min - 1} |-> gs[generation][i]]]

\* clean that leaves the old generations.
cleanWALOnly(file, gs, positions) == cleanWAL(file, gs, positions)

\* clean: old generations, then replicated WAL files.
clean(file, gs, positions) == cleanWAL(file, cleanGenerations(file, gs), positions)

(***************************************************************************)
(* createGeneration.  fail names an injected I/O failure: "none", or       *)
(* "clean" (the prune that follows the rename of the pointer file).        *)
(***************************************************************************)
createGeneration(gs, file, generation, live, ps, positions, fail) ==
  LET dir == [y \in DOMAIN gs \cup {generation} |->
                IF y = generation THEN << >> ELSE gs[y]]
      r == initShadowWALFile(live, ps)
      gs1 == IF r.wrote THEN PutSeg(dir, generation, 0, r.seg) ELSE dir
      file1 == GenName(generation) \o <<NL>>
  IN IF r.err THEN [err |-> TRUE, gens |-> gs1, file |-> file, generation |-> NoGen]
     ELSE IF fail = "clean"
     THEN [err |-> TRUE, gens |-> gs1, file |-> file1, generation |-> NoGen]
     ELSE [err |-> FALSE, gens |-> clean(file1, gs1, positions), file |-> file1,
           generation |-> generation]

\* syncWAL that never starts the segment with the next index.
syncWALNoRestart(gs, i, live, ps) ==
  IF ~SegExists(gs, i.generation, i.shadowIdx) THEN [err |-> TRUE, gens |-> gs, newSize |-> 0]
  ELSE
    LET c == copyToShadowWAL(gs[i.generation][i.shadowIdx], live, ps)
    IN [err |-> c.err,
        gens |-> IF c.err THEN gs ELSE PutSeg(gs, i.generation, i.shadowIdx, c.seg),
        newSize |-> c.newSize]

\* syncWAL: [err, gens, newSize] after copying to the segment of info and,
\* on a restart, starting the segment with the next index.
syncWAL(gs, i, live, ps) ==
  IF ~SegExists(gs, i.generation, i.shadowIdx) THEN [err |-> TRUE, gens |-> gs, newSize |-> 0]
  ELSE
    LET c == copyToShadowWAL(gs[i.generation][i.shadowIdx], live, ps)
        gs1 == PutSeg(gs, i.generation, i.shadowIdx, c.seg)
    IN IF c.err THEN [err |-> TRUE, gens |-> gs, newSize |-> c.newSize]
       ELSE IF ~i.restart THEN [err |-> FALSE, gens |-> gs1, newSize |-> c.newSize]
       ELSE LET r == initShadowWALFile(live, ps)
                gs2 == IF r.wrote THEN PutSeg(gs1, i.generation, i.shadowIdx + 1, r.seg)
                       ELSE gs1
            IN [err |-> r.err, gens |-> gs2, newSize |-> IF r.err THEN 0 ELSE r.newSize]

\* The checkpoint decision that tests the passive threshold first.
checkpointModePassiveFirst(newWALSize, ps, minPageN, maxPageN, elapsed) ==
  IF newWALSize >= calcWALSize(ps, minPageN) THEN "PASSIVE"
  ELSE IF maxPageN > 0 /\ newWALSize >= calcWALSize(ps, maxPageN) THEN "RESTART"
  ELSE IF elapsed /\ newWALSize > calcWALSize(ps, 1) THEN "PASSIVE"
  ELSE ""

\* The checkpoint decision without the checkpoint interval.
checkpointModeNoInterval(newWALSize, ps, minPageN, maxPageN, elapsed) ==
  IF maxPageN > 0 /\ newWALSize >= calcWALSize(ps, maxPageN) THEN "RESTART"
  ELSE IF newWALSize >= calcWALSize(ps, minPageN) THEN "PASSIVE"
  ELSE ""

\* The checkpoint decision of Sync: "" (none), "PASSIVE" or "RESTART".
\* elapsed: the database file was modified longer ago than CheckpointInterval,
\* verify having read its modification time (a generation existed).
checkpointMode(newWALSize, ps, minPageN, maxPageN, elapsed) ==
  IF maxPageN > 0 /\ newWALSize >= calcWALSize(ps, maxPageN) THEN "RESTART"
  ELSE IF newWALSize >= calcWALSize(ps, minPageN) THEN "PASSIVE"
  ELSE IF elapsed /\ newWALSize > calcWALSize(ps, 1) THEN "PASSIVE"
  ELSE ""

(***************************************************************************)
(* History variables of the properties.                                    *)
(***************************************************************************)
\* Some segment of gs2 is new or differs from gs, or the generation changed.
Grew(file, gs, file2, gs2) ==
  \/ CurrentGenerationOf(file2) # CurrentGenerationOf(file)
  \/ \E g \in DOMAIN gs2 : \E i \in DOMAIN gs2[g] :
       ~SegExists(gs, g, i) \/ gs2[g][i] # gs[g][i]

\* Generation g has a segment in gs2 that is new or differs from gs.
Touched(gs, gs2, g) ==
  /\ g \in DOMAIN gs2
  /\ \E i \in DOMAIN gs2[g] : ~SegExists(gs, g, i) \/ gs2[g][i] # gs[g][i]

\* The current shadow segment holds at least one frame.
CurrentSegHasFrame ==
  LET g == CurrentGeneration
      i == CurrentShadowWALIndex(g)
  IN g # NoGen /\ SegExists(gens, g, i) /\ Len(gens[g][i].frames) >= 1

\* The pointer file names a generation while the live WAL is missing, the
\* current segment is missing, or their headers differ.
StalePointer(file, gs, live) ==
  LET generation == CurrentGenerationOf(file)
      index == CurrentShadowWALIndexOf(gs, generation)
  IN /\ generation # NoGen
     /\ \/ ~live.exists
        \/ ~SegExists(gs, generation, index)
        \/ live.hdr # gs[generation][index].hdr

Ghost0 ==
  [copyHeld |-> TRUE,    \* the write lock was held at every copy so far
   grew |-> FALSE,       \* the call in flight wrote to the shadow
   gen0 |-> NoGen,       \* generation when the call in flight began
   trunc |-> FALSE,      \* the tick began over a live WAL truncated to 0 bytes
   overw |-> FALSE,      \* verify saw the last shadow frame differ from the live one
   oldTouched |-> FALSE, \* generation gen0 was written to after overw was seen
   cold |-> FALSE,       \* the tick is the first one over a new database
   ckpt |-> FALSE,       \* the tick in flight decided to checkpoint
   oldN |-> 0,           \* frames committed under the header before the last restart
   lockRows |-> 0,       \* rows of _litestream_lock committed to the database
   stmt |-> "none",      \* the checkpoint statement of the call in flight: "none"
                         \* (not executed), "free" (executed with no transaction
                         \* of the engine open) or "held"
   quiet |-> FALSE,      \* the last tick returned success over an open database
                         \* and no other party has written since
   dirty |-> FALSE,      \* another party has written since the verification of
                         \* the call in flight
   stale |-> FALSE,      \* the tick is the first of the process and began over a
                         \* pointer file without a matching live WAL
   verified |-> "none",  \* what verify told the tick in flight: "new" (a reason
                         \* for a new generation), "restart", "same" or "err"
   rot |-> "none"]       \* last rotation after a checkpoint: "ok", or "lost" when
                         \* the old segment misses a frame committed under its header

\* The number of frames committed under the old header, when the write from
\* q to q2 restarted the WAL.
OldNAfter(q, q2) ==
  IF q2.wal.hdr # q.wal.hdr /\ q.wal.hdr # NoHdr THEN q.mx ELSE ghost.oldN

\* The history after a write by another party: the call in flight, once past
\* its verification, has not seen it.
Written(h) ==
  [h EXCEPT !.quiet = FALSE, !.dirty = @ \/ pc \notin {"idle", "locked"}]

GhostAtCall ==
  [ghost EXCEPT !.grew = FALSE, !.gen0 = CurrentGeneration, !.trunc = FALSE,
                !.overw = FALSE, !.oldTouched = FALSE, !.cold = FALSE, !.ckpt = FALSE,
                !.verified = "none", !.stmt = "none", !.stale = FALSE,
                !.dirty = FALSE]

GhostAtSync ==
  [GhostAtCall EXCEPT
     !.trunc = conn /\ wal.exists /\ FileSize(wal) = 0 /\ CurrentSegHasFrame,
     !.cold = ~conn /\ dbFile /\ ~tables /\ ~wal.exists /\ genFile = NoFile /\ gens = << >>,
     !.stale = ~conn /\ dbFile /\ StalePointer(genFile, gens, wal)]

(***************************************************************************)
(* Initial state: NewDB over a database file that may not exist yet, with  *)
(* no meta directory.                                                      *)
(***************************************************************************)
Ck0 == [mode |-> "", gen |-> NoGen, idx |-> 0, hdr |-> NoHdr]

\* No call of ShadowWALReader was made.
NoReader == [pos |-> [gen |-> NoGen, index |-> 0, offset |-> 0], res |-> [kind |-> "none"]]

\* No call of cleanWAL was made.
NoPruned == [called |-> FALSE, before |-> << >>, positions |-> {}]

\* db.mu held by nobody.
MuFree == [w |-> "none", r |-> {}]

\* The goroutines that call into the DB: the monitor started by Open and two
\* external callers.
Callers == {"monitor", "ext1", "ext2"}

\* No goroutine runs, nothing is shut down.
Proc0 == [g \in Callers |-> [pc |-> IF g = "monitor" THEN "off" ELSE "idle", op |-> "none"]]
Ctl0 == [ctxDone |-> FALSE, replicas |-> "none", closer |-> "idle", closeOp |-> "none",
         dbClosed |-> FALSE]

\* A file of the restore: absent ("none"), a file that was there before
\* ("old"), or a database ("db") made of a snapshot, copied in part or in
\* full, and of the WAL segments applied to it.
NoContent == [kind |-> "none", snapshot |-> "none", wals |-> 0]
OldContent == [kind |-> "old", snapshot |-> "none", wals |-> 0]

\* RestoreReplica was not called: nothing at the output path nor beside it.
Restore0 ==
  [pc |-> "idle", ret |-> "none",
   opt |-> [OutputPath |-> "", Generation |-> "", Index |-> 0, Timestamp |-> FALSE,
            DryRun |-> FALSE],
   out0 |-> NoContent,          \* the file at the output path before the call
   fs |-> [out |-> NoContent, tmp |-> NoContent],
   tmpWAL |-> FALSE,            \* the file <output>.tmp-wal exists
   min |-> 0, max |-> 0, index |-> 0,
   snapshotOnly |-> FALSE,      \* the loop ended on "no wal available"
   applied |-> << >>,           \* indexes of the segments checkpointed into the
                                \* temporary file with busy = 0, in order
   last |-> "none",             \* how the last call of restoreWAL ended
   reads |-> 0]                 \* requests made to the replica

\* init has not run: there is no meta directory.
Boot0 == [out |-> "none", metaDir |-> FALSE]

\* Largest number of channels Sync installs in db.notify.
MaxChan == 2

\* NewDB makes the first channel; nothing was returned by Notify().
Notify0 ==
  [ch |-> 0, closed |-> [c \in 0..MaxChan |-> 0], ret |-> [g \in Callers |-> "none"]]

\* No checkpoint decision was taken.
Decision0 ==
  [minPageN |-> MinCheckpointPageN, maxPageN |-> MaxCheckpointPageN, interval |-> 0,
   since |-> 0, zero |-> TRUE, pages |-> 0, decided |-> FALSE, mode |-> ""]

\* createGeneration was not called: no temporary pointer file.
Creation0 ==
  [pc |-> "idle", ret |-> "none", generation |-> NoGen, tmp |-> NoFile,
   file0 |-> NoFile, gens0 |-> << >>, renamed |-> FALSE, seen |-> {}]

\* No tick was followed byte by byte: the current segment ends on a frame
\* boundary.
Copy0 ==
  [tail |-> 0,        \* bytes of the current segment past its last whole frame
   ret |-> "none",    \* how the last tick ended: "ok" or "err"
   tail0 |-> 0,       \* tail when the last tick began
   new |-> FALSE,     \* the last tick started a new generation
   seeded |-> FALSE,  \* the copy of the last tick read its first checksum
   seed |-> 0,        \* that checksum
   gen |-> NoGen, idx |-> 0,  \* the segment the last tick copied to
   from |-> 0,        \* whole frames of that segment before the copy
   to |-> 0,          \* whole frames of that segment after the copy
   cut |-> FALSE]     \* the copy was cut short

\* frameAlign was not called.
Align0 == [offset |-> 0, pageSize |-> 0, out |-> 0, twice |-> 0, called |-> FALSE]

\* Pos() was not called.
PosCall0 ==
  [pc |-> "idle",          \* the read the call in flight makes next
   generation |-> NoGen,   \* its local: the id read from the pointer file
   index |-> 0,            \* its local: the index read from the directory
   rets |-> << >>]         \* the positions returned so far, in order

TraceInit ==
  /\ copy = Copy0
  /\ align = Align0
  /\ posCall = PosCall0

UnitInit ==
  /\ boot = Boot0
  /\ notify = Notify0
  /\ decision = Decision0
  /\ creation = Creation0
  /\ TraceInit

\* The operations followed on their own have not begun.
SideInit ==
  /\ UnitInit
  /\ restore = Restore0
  /\ reader = NoReader
  /\ pruned = NoPruned
  /\ mu = MuFree
  /\ proc = Proc0
  /\ ctl = Ctl0

Init ==
  /\ dbFile \in BOOLEAN
  /\ tables = FALSE
  /\ wal = NoWAL
  /\ mx = 0
  /\ walReset = FALSE
  /\ nextSalt = 1
  /\ conn = FALSE
  /\ rtx = FALSE
  /\ pageSize = 0
  /\ wlock = FALSE
  /\ genFile = NoFile
  /\ gens = << >>
  /\ nextGen = 1
  /\ pc = "idle"
  /\ op = "none"
  /\ changed = FALSE
  /\ ck = Ck0
  /\ ret = "none"
  /\ notifyN = 0
  /\ closed = FALSE
  /\ faults = 0
  /\ calls = 0
  /\ ghost = Ghost0
  /\ SideInit

\* The outcomes an operation may take: all of them while the fault budget
\* lasts, only "ok" (no failure) afterwards.
Outcomes(all) == IF faults < MaxFault THEN all ELSE {"ok"}
Fault(out) == faults' = IF out = "ok" THEN faults ELSE faults + 1

\* A call returns r: its locals are gone, mu is still to be released.
Return(r) == pc' = "done" /\ ret' = r /\ changed' = FALSE /\ ck' = Ck0
\* A call moves on to its step at p.
Goto(p) == pc' = p /\ UNCHANGED ret

(***************************************************************************)
(* init: lazy initialisation of the connection, run by Sync and CRC64      *)
(* under mu when db.db is nil and the database file exists.                *)
(***************************************************************************)
\* verifyHeadersMatch that never returns an error.
verifyHeadersMatchAlways(file, gs, live) == TRUE

\* verifyHeadersMatch: TRUE when no error is returned.
verifyHeadersMatch(file, gs, live) ==
  LET generation == CurrentGenerationOf(file)
      index == CurrentShadowWALIndexOf(gs, generation)
  IN \/ generation = NoGen
     \/ /\ live.exists /\ live.hdr # NoHdr
        /\ SegExists(gs, generation, index)
        /\ gs[generation][index].hdr # NoHdr
        /\ live.hdr = gs[generation][index].hdr

\* init that goes on to open a database file that does not exist.
NoDatabaseIgnored == FALSE

\* init returns with db.db still nil: it has not run yet and the database
\* file does not exist.
NoDatabase == ~conn /\ ~dbFile

\* The state init leaves: the tables are created (a committed write when they
\* were missing), the pointer file is removed on a header mismatch, and old
\* generations and replicated WAL files are pruned.
dbInit(q, hasTables, file, gs, positions) ==
  LET q1 == IF hasTables THEN q ELSE SqliteCommit(q, <<1>>)
      file1 == IF verifyHeadersMatch(file, gs, q1.wal) THEN file ELSE NoFile
  IN [q |-> q1, file |-> file1, gens |-> clean(file1, gs, positions)]

\* init when needed, else the state as it is.
dbInitOnce ==
  IF conn THEN [q |-> Sq, file |-> genFile, gens |-> gens]
  ELSE dbInit(Sq, tables, genFile, gens, {NoPos})

\* ensureWALExists: the _seq upsert runs when the live WAL is missing or
\* shorter than a header.
ensureWALExists(q) ==
  IF q.wal.exists /\ FileSize(q.wal) >= WALHeaderSize THEN q ELSE SqliteCommit(q, <<1>>)

\* The model's bounds allow the write of init.
CanInit == conn \/ tables \/ CanWrite(Sq, 1)
\* The model's bounds allow the write of ensureWALExists after init.
CanEnsure ==
  LET q == dbInitOnce.q
  IN (q.wal.exists /\ FileSize(q.wal) >= WALHeaderSize) \/ CanWrite(q, 1)

(***************************************************************************)
(* Sync.                                                                   *)
(***************************************************************************)
\* Sync up to the promotion of its transaction to a writer: mu.Lock, init,
\* ensureWALExists, Begin and the insert into _litestream_lock.
SyncBegin ==
  /\ pc = "idle" /\ ~closed
  /\ UNCHANGED <<calls, sideVars>>
  /\ op' = "sync"
  /\ notifyN' = 0
  /\ ghost' = GhostAtSync
  /\ IF NoDatabase
     THEN /\ Return("ok")
          /\ UNCHANGED <<envVars, conn, rtx, pageSize, wlock, storeVars>>
     ELSE /\ CanInit /\ CanEnsure
          /\ SetSq(ensureWALExists(dbInitOnce.q))
          /\ genFile' = dbInitOnce.file
          /\ gens' = dbInitOnce.gens
          /\ tables' = TRUE
          /\ conn' = TRUE
          /\ rtx' = (IF conn THEN rtx ELSE TRUE)
          /\ pageSize' = PageSize
          /\ wlock' = TRUE
          /\ Goto("locked")
          /\ UNCHANGED <<dbFile, nextGen, changed, ck>>
  /\ UNCHANGED <<closed, faults>>

\* The last full frame of the current shadow segment differs from the live
\* WAL's frame at the same offset.
LastFrameOverwritten ==
  LET g == CurrentGeneration
      i == CurrentShadowWALIndex(g)
      n == Len(gens[g][i].frames)
  IN /\ CurrentSegHasFrame
     /\ Len(wal.frames) >= n
     /\ wal.frames[n] # gens[g][i].frames[n]

\* Sync from verify to the checkpoint decision, given the result i0 of
\* verify, cg of createGeneration (when verification gave a reason), the
\* syncInfo i1 that syncWAL is given and its result sw.
syncDecided(i0, cg, i1, sw, out, elapsed) ==
  LET mode == checkpointMode(sw.newSize, pageSize, MinCheckpointPageN,
                             MaxCheckpointPageN, elapsed)
  IN [gens |-> IF i0.err THEN gens ELSE sw.gens,
      file |-> IF i0.err THEN genFile ELSE cg.file,
      new |-> i0.reason # "" /\ ~i0.err,
      failed |-> i0.err \/ cg.err \/ sw.err \/ out = "rollback",
      mode |-> mode,
      generation |-> i1.generation,
      changed |-> (i0.walSize # i0.shadowWALSize \/ i0.restart \/ i0.reason # ""
                   \/ mode # "")]

syncCopied(i0, cg, i1, out, elapsed) ==
  syncDecided(i0, cg, i1,
              IF i0.err \/ cg.err THEN [err |-> TRUE, gens |-> cg.gens, newSize |-> 0]
              ELSE syncWAL(cg.gens, i1, wal, pageSize),
              out, elapsed)

syncGenerated(i0, cg, out, elapsed) ==
  syncCopied(i0, cg,
             IF i0.reason # ""
             THEN [i0 EXCEPT !.generation = cg.generation, !.shadowIdx = 0,
                             !.shadowWALSize = WALHeaderSize,
                             !.restart = FALSE, !.reason = ""]
             ELSE i0,
             out, elapsed)

syncVerified(i0, out, elapsed, rp) ==
  syncGenerated(i0,
                IF i0.reason # ""
                THEN createGeneration(gens, genFile, nextGen, wal, pageSize, {rp},
                                      IF out = "clean" THEN "clean" ELSE "none")
                ELSE [err |-> FALSE, gens |-> gens, file |-> genFile,
                      generation |-> i0.generation],
                out, elapsed)

\* The end of the tick's transaction by commit: the pending rows reach the
\* database.
rollbackCommits(rows, pending) == rows + pending

\* The end of the tick's transaction, by tx.Rollback or by the deferred
\* rollback(tx): the rows of _litestream_lock on disk afterwards, the pending
\* insert being discarded.
rollback(rows, pending) == rows

\* The outcome of verify, for the history of the tick.
Verified(i0) ==
  IF i0.err THEN "err" ELSE IF i0.reason # "" THEN "new"
  ELSE IF i0.restart THEN "restart" ELSE "same"

\* A reason to start a new generation is found by verify.
VerifyFails == verify(genFile, gens, wal, pageSize).reason # ""

\* Sync under the write lock: verify, createGeneration when verification
\* failed, syncWAL, the checkpoint decision and the rollback that releases
\* the lock.
SyncLocked ==
  /\ pc = "locked"
  /\ UNCHANGED <<calls, sideVars>>
  /\ \E out \in Outcomes({"ok", "clean", "rollback"}), elapsed \in BOOLEAN,
        rp \in LastPositions(genFile, gens) :
       LET r == syncVerified(verify(genFile, gens, wal, pageSize), out, elapsed, rp)
       IN /\ out = "clean" => VerifyFails
          /\ VerifyFails => nextGen <= MaxGen
          /\ CurrentGeneration = NoGen => ~elapsed
          /\ Fault(out)
          /\ gens' = r.gens
          /\ genFile' = r.file
          /\ nextGen' = IF r.new THEN nextGen + 1 ELSE nextGen
          /\ ghost' = [ghost EXCEPT
                         !.copyHeld = IF r.gens # gens THEN @ /\ wlock ELSE @,
                         !.grew = @ \/ Grew(genFile, gens, r.file, r.gens),
                         !.overw = LastFrameOverwritten,
                         !.oldTouched = LastFrameOverwritten
                                        /\ Touched(gens, r.gens, ghost.gen0),
                         !.ckpt = ~r.failed /\ r.mode # "",
                         !.lockRows = rollback(@, 1),
                         !.verified = Verified(verify(genFile, gens, wal, pageSize))]
          /\ IF r.failed THEN Return("err")
             ELSE /\ Goto(IF r.mode # "" THEN "ckpt" ELSE "clean")
                  /\ changed' = r.changed
                  /\ ck' = [Ck0 EXCEPT !.mode = r.mode, !.gen = r.generation]
  /\ wlock' = FALSE
  /\ UNCHANGED <<envVars, conn, rtx, pageSize, op, notifyN, closed>>

(***************************************************************************)
(* checkpoint and checkpointAndInit.                                       *)
(***************************************************************************)
\* checkpoint(mode): [rtx, reset, err] for each outcome.  "release": the
\* rollback of the read transaction fails; "stmt": the PRAGMA fails and the
\* deferred re-acquire succeeds; "stmtacq": the PRAGMA and the deferred
\* re-acquire fail; "acq": the PRAGMA succeeds and both re-acquires fail;
\* "acq1": only the first re-acquire fails.  complete: every frame was
\* checkpointed, so that the next writer restarts the WAL.
\* releaseReadLock that leaves the read transaction open.
releaseReadLockKept(r) == r

\* releaseReadLock: db.rtx afterwards; it is nil whatever Rollback returned.
releaseReadLock(r) == FALSE

\* How the checkpoint statement runs: held tells that the read transaction is
\* open; the write transaction of the tick is open while wlock.
StmtUnder(held) == IF held \/ wlock THEN "held" ELSE "free"

checkpoint(out, complete) ==
  LET held == releaseReadLock(rtx)
      done == walReset \/ (complete /\ mx > 0 /\ ~held) IN
  CASE out = "release" -> [rtx |-> held, reset |-> walReset, err |-> TRUE, stmt |-> "none"]
    [] out = "stmt" -> [rtx |-> TRUE, reset |-> walReset, err |-> TRUE, stmt |-> StmtUnder(held)]
    [] out = "stmtacq" -> [rtx |-> held, reset |-> walReset, err |-> TRUE, stmt |-> StmtUnder(held)]
    [] out = "acq" -> [rtx |-> held, reset |-> done, err |-> TRUE, stmt |-> StmtUnder(held)]
    [] out = "acq1" -> [rtx |-> TRUE, reset |-> done, err |-> TRUE, stmt |-> StmtUnder(held)]
    [] OTHER -> [rtx |-> TRUE, reset |-> done, err |-> FALSE, stmt |-> StmtUnder(held)]

CheckpointOutcomes ==
  Outcomes({"ok", "stmt", "stmtacq", "acq", "acq1"} \cup (IF rtx THEN {"release"} ELSE {}))

\* checkpointAndInit up to the end of checkpoint(mode): the current shadow
\* path and the live header are read first.
CkptExec ==
  /\ pc = "ckpt"
  /\ UNCHANGED <<calls, sideVars>>
  /\ IF ~wal.exists \/ wal.hdr = NoHdr
     THEN /\ Return("err")
          /\ UNCHANGED <<rtx, walReset, faults, ghost>>
     ELSE \E out \in CheckpointOutcomes, complete \in BOOLEAN :
            LET c == checkpoint(out, complete)
            IN /\ Fault(out)
               /\ rtx' = c.rtx
               /\ walReset' = c.reset
               /\ ghost' = [ghost EXCEPT !.stmt = c.stmt]
               /\ IF c.err THEN Return("err")
                  ELSE /\ Goto("seq")
                       /\ ck' = [ck EXCEPT !.idx = CurrentShadowWALIndex(ck.gen),
                                           !.hdr = wal.hdr]
                       /\ UNCHANGED changed
  /\ UNCHANGED <<dbFile, tables, wal, mx, nextSalt, conn, pageSize, wlock, storeVars,
                 op, notifyN, closed>>

\* The write to _litestream_seq that follows the checkpoint.
CkptSeq ==
  /\ pc = "seq"
  /\ UNCHANGED <<calls, sideVars>>
  /\ CanWrite(Sq, 1)
  /\ SetSq(SqliteCommit(Sq, <<1>>))
  /\ ghost' = [ghost EXCEPT !.oldN = OldNAfter(Sq, SqliteCommit(Sq, <<1>>))]
  /\ Goto("cmp")
  /\ UNCHANGED <<dbFile, tables, conn, rtx, pageSize, wlock, storeVars, op,
                 changed, ck, notifyN, closed, faults>>

\* The comparison that finds every header unchanged.
headerUnchangedAlways(hdr, other) == TRUE

\* bytes.Equal(hdr, other) of the header read before the checkpoint and the
\* one read after the write that follows it.
headerUnchanged(hdr, other) == hdr = other

\* The rest of checkpointAndInit: when the live header changed, the tail of
\* the previous WAL is copied and the segment with the next index is started.
CkptCompare ==
  /\ pc = "cmp"
  /\ UNCHANGED <<calls, sideVars>>
  /\ LET same == wal.exists /\ wal.hdr # NoHdr /\ headerUnchanged(ck.hdr, wal.hdr)
         bad == ~wal.exists \/ wal.hdr = NoHdr \/ ~SegExists(gens, ck.gen, ck.idx)
         c == copyToShadowWAL(gens[ck.gen][ck.idx], wal, pageSize)
         r == initShadowWALFile(wal, pageSize)
         gs1 == PutSeg(gens, ck.gen, ck.idx, c.seg)
         gs2 == IF r.wrote THEN PutSeg(gs1, ck.gen, ck.idx + 1, r.seg) ELSE gs1
         gens2 == IF same \/ bad \/ c.err THEN gens ELSE gs2
         failed == ~same /\ (bad \/ c.err \/ r.err)
         lost == /\ faults = 0
                 /\ c.seg.hdr.salt + 1 = wal.hdr.salt
                 /\ Len(c.seg.frames) < ghost.oldN
     IN /\ gens' = gens2
        /\ ghost' = [ghost EXCEPT
                       !.copyHeld = IF same \/ bad THEN @ ELSE @ /\ wlock,
                       !.grew = @ \/ Grew(genFile, gens, genFile, gens2),
                       !.oldTouched = @ \/ (ghost.overw /\ Touched(gens, gens2, ghost.gen0)),
                       !.rot = IF same \/ failed THEN @
                               ELSE IF lost THEN "lost" ELSE "ok"]
        /\ IF failed THEN Return("err")
           ELSE IF op = "crc64" THEN Return("ok")
           ELSE /\ Goto("clean")
                /\ ck' = [ck EXCEPT !.idx = 0, !.hdr = NoHdr]
                /\ UNCHANGED changed
  /\ UNCHANGED <<envVars, conn, rtx, pageSize, wlock, genFile, nextGen, op,
                 notifyN, closed, faults>>

\* The end of Sync: clean, then the notification when anything changed.
SyncFinish ==
  /\ pc = "clean"
  /\ UNCHANGED <<calls, sideVars>>
  /\ \E out \in Outcomes({"ok", "clean"}), rp \in LastPositions(genFile, gens) :
       /\ Fault(out)
       /\ IF out = "clean"
          THEN /\ Return("err")
               /\ UNCHANGED <<gens, notifyN>>
          ELSE /\ gens' = clean(genFile, gens, {rp})
               /\ notifyN' = IF changed THEN notifyN + 1 ELSE notifyN
               /\ Return("ok")
  /\ UNCHANGED <<envVars, conn, rtx, pageSize, wlock, genFile, nextGen, op,
                 closed, ghost>>

(***************************************************************************)
(* CRC64, Checkpoint and SoftClose.                                        *)
(***************************************************************************)
\* CRC64 up to its forced RESTART checkpoint: mu.Lock, init, the lookup of
\* the current generation.
CRC64Begin ==
  /\ pc = "idle" /\ ~closed
  /\ calls < MaxCall
  /\ calls' = calls + 1
  /\ UNCHANGED sideVars
  /\ op' = "crc64"
  /\ notifyN' = 0
  /\ ghost' = [GhostAtCall EXCEPT !.quiet = FALSE]
  /\ IF NoDatabase
     THEN /\ Return("err")
          /\ UNCHANGED <<envVars, conn, rtx, pageSize, storeVars>>
     ELSE /\ CanInit
          /\ SetSq(dbInitOnce.q)
          /\ genFile' = dbInitOnce.file
          /\ gens' = dbInitOnce.gens
          /\ IF CurrentGenerationOf(dbInitOnce.file) = NoGen THEN Return("err")
             ELSE /\ Goto("ckpt")
                  /\ ck' = [Ck0 EXCEPT !.mode = "RESTART",
                                       !.gen = CurrentGenerationOf(dbInitOnce.file)]
                  /\ UNCHANGED changed
          /\ tables' = TRUE
          /\ conn' = TRUE
          /\ rtx' = (IF conn THEN rtx ELSE TRUE)
          /\ pageSize' = PageSize
          /\ UNCHANGED <<dbFile, nextGen>>
  /\ UNCHANGED <<wlock, closed, faults>>

\* Checkpoint(mode): checkpoint under mu; a no-op without a connection.
CheckpointCall ==
  /\ pc = "idle" /\ ~closed
  /\ calls < MaxCall
  /\ calls' = calls + 1
  /\ UNCHANGED sideVars
  /\ op' = "checkpoint"
  /\ IF ~conn
     THEN /\ Return("ok")
          /\ UNCHANGED <<rtx, walReset, faults, ghost>>
     ELSE \E out \in CheckpointOutcomes, complete \in BOOLEAN :
            LET c == checkpoint(out, complete)
            IN /\ Fault(out)
               /\ rtx' = c.rtx
               /\ walReset' = c.reset
               /\ ghost' = [ghost EXCEPT !.stmt = c.stmt]
               /\ Return(IF c.err THEN "err" ELSE "ok")
  /\ UNCHANGED <<dbFile, tables, wal, mx, nextSalt, conn, pageSize, wlock, storeVars,
                 notifyN, closed>>

\* SoftClose: the monitor is stopped and waited for, the replicas are
\* stopped, the read lock is released; the connection stays open.
SoftClose ==
  /\ pc = "idle" /\ ~closed
  /\ UNCHANGED <<calls, sideVars>>
  /\ closed' = TRUE
  /\ rtx' = FALSE
  /\ UNCHANGED <<envVars, conn, pageSize, wlock, storeVars, callVars, faults, ghost>>

\* The deferred mu.Unlock of Sync, Checkpoint and CRC64: the call is over and
\* what the history variables recorded of it is forgotten.
Unlock ==
  /\ pc = "done"
  /\ UNCHANGED <<calls, sideVars>>
  /\ pc' = "idle"
  /\ op' = "none"
  /\ ret' = "none"
  /\ notifyN' = 0
  /\ ghost' = [Ghost0 EXCEPT !.oldN = ghost.oldN, !.lockRows = ghost.lockRows,
                             !.quiet = (op = "sync" /\ ret = "ok" /\ conn
                                        /\ ~ghost.dirty)]
  /\ UNCHANGED <<envVars, conn, rtx, pageSize, wlock, storeVars, changed, ck,
                 closed, faults>>

(***************************************************************************)
(* Environment: other connections, third parties and the replica.  The      *)
(* return of a call is one instant: the environment's steps are taken      *)
(* before or after it.  After SoftClose the environment is not followed.    *)
(***************************************************************************)
\* The database file is created.
ExtCreateDB ==
  /\ pc # "done" /\ ~dbFile /\ ~closed
  /\ UNCHANGED <<calls, sideVars>>
  /\ dbFile' = TRUE
  /\ UNCHANGED <<tables, wal, mx, walReset, nextSalt, conn, rtx, pageSize, wlock,
                 storeVars, callVars, closed, faults, ghost>>

\* Another connection commits a transaction of one or two frames.  The write
\* lock of the tick excludes it.
ExtWrite ==
  /\ pc # "done" /\ conn /\ ~closed /\ ~wlock
  /\ UNCHANGED <<calls, sideVars>>
  /\ \E flags \in {<<1>>, <<0, 1>>} :
       /\ CanWrite(Sq, Len(flags))
       /\ SetSq(SqliteCommit(Sq, flags))
       /\ ghost' = [Written(ghost) EXCEPT
                      !.oldN = OldNAfter(Sq, SqliteCommit(Sq, flags))]
  /\ UNCHANGED <<dbFile, tables, conn, rtx, pageSize, wlock, storeVars, callVars,
                 closed, faults>>

\* Another connection leaves an uncommitted frame after the last valid one
\* (a spilled page of a transaction in flight or rolled back).
ExtSpill ==
  /\ pc # "done" /\ conn /\ ~closed /\ ~wlock /\ ~WillRestart(Sq)
  /\ UNCHANGED <<calls, sideVars>>
  /\ CanWrite(Sq, 1)
  /\ wal' = SqliteWritten(Sq, <<0>>)
  /\ wal' # wal
  /\ ghost' = Written(ghost)
  /\ UNCHANGED <<dbFile, tables, mx, walReset, nextSalt, conn, rtx, pageSize, wlock,
                 storeVars, callVars, closed, faults>>

\* Another connection completes a checkpoint; the read transaction of the
\* engine, while held, prevents it.
ExtCheckpoint ==
  /\ pc # "done" /\ conn /\ ~closed /\ ~rtx /\ ~wlock /\ mx > 0 /\ ~walReset
  /\ UNCHANGED <<calls, sideVars>>
  /\ walReset' = TRUE
  /\ ghost' = Written(ghost)
  /\ UNCHANGED <<dbFile, tables, wal, mx, nextSalt, conn, rtx, pageSize, wlock,
                 storeVars, callVars, closed, faults>>

\* A third party truncates the live WAL file to 0 bytes.
ExtTruncate ==
  /\ pc # "done" /\ conn /\ ~closed /\ wal.exists /\ wal.hdr # NoHdr
  /\ UNCHANGED <<calls, sideVars>>
  /\ faults < MaxFault
  /\ faults' = faults + 1
  /\ wal' = [exists |-> TRUE, hdr |-> NoHdr, frames |-> << >>]
  /\ mx' = 0
  /\ walReset' = FALSE
  /\ ghost' = Written(ghost)
  /\ UNCHANGED <<dbFile, tables, nextSalt, conn, rtx, pageSize, wlock, storeVars,
                 callVars, closed>>

\* A third party rewrites the payload of a frame of the live WAL in place.
ExtOverwrite ==
  /\ pc # "done" /\ conn /\ ~closed
  /\ UNCHANGED <<calls, sideVars>>
  /\ faults < MaxFault
  /\ faults' = faults + 1
  /\ \E k \in 1..Len(wal.frames) :
       /\ wal.frames[k].data = 1
       /\ wal' = [wal EXCEPT !.frames[k].data = 2]
  /\ ghost' = Written(ghost)
  /\ UNCHANGED <<dbFile, tables, mx, walReset, nextSalt, conn, rtx, pageSize, wlock,
                 storeVars, callVars, closed>>

Next ==
  \/ SyncBegin
  \/ SyncLocked
  \/ CkptExec
  \/ CkptSeq
  \/ CkptCompare
  \/ SyncFinish
  \/ CRC64Begin
  \/ CheckpointCall
  \/ Unlock
  \/ SoftClose
  \/ ExtCreateDB
  \/ ExtWrite
  \/ ExtSpill
  \/ ExtCheckpoint
  \/ ExtTruncate
  \/ ExtOverwrite

Spec == Init /\ [][Next]_vars

(***************************************************************************)
(* The engine restarted by a new process (NewDB again) over the database   *)
(* and the meta directory an earlier process left: the current generation  *)
(* has reached segment MaxIndex, whose content is the live WAL's, and the  *)
(* segment before it is kept as cleanWAL keeps it.                         *)
(***************************************************************************)
InitRestart ==
  /\ dbFile = TRUE
  /\ tables = TRUE
  /\ wal = [exists |-> TRUE, hdr |-> Hdr(2), frames |-> Chain(Hdr(2).ck, 2, <<1>>, 1)]
  /\ mx = 1
  /\ walReset = FALSE
  /\ nextSalt = 3
  /\ conn = FALSE
  /\ rtx = FALSE
  /\ pageSize = 0
  /\ wlock = FALSE
  /\ genFile = GenName(1) \o <<NL>>
  /\ gens = (1 :> ((MaxIndex - 1) :> [exists |-> TRUE, hdr |-> Hdr(1),
                                      frames |-> Chain(Hdr(1).ck, 1, <<0, 1>>, 1)]
                   @@ MaxIndex :> wal))
  /\ nextGen = 2
  /\ pc = "idle"
  /\ op = "none"
  /\ changed = FALSE
  /\ ck = Ck0
  /\ ret = "none"
  /\ notifyN = 0
  /\ closed = FALSE
  /\ faults = 0
  /\ calls = 0
  /\ ghost = Ghost0
  /\ SideInit

NextRestart ==
  \/ SyncBegin
  \/ SyncLocked
  \/ CkptExec
  \/ CkptSeq
  \/ CkptCompare
  \/ SyncFinish
  \/ CRC64Begin
  \/ CheckpointCall
  \/ Unlock
  \/ SoftClose
  \/ ExtWrite
  \/ ExtSpill
  \/ ExtCheckpoint
  \/ ExtTruncate
  \/ ExtOverwrite

SpecRestart == InitRestart /\ [][NextRestart]_vars

(***************************************************************************)
(* The engine started by a new process over what an earlier one left: the  *)
(* tables exist, the pointer file names generation 1, and the live WAL and *)
(* the shadow store may or may not agree with it.                          *)
(***************************************************************************)
\* The stores left: no directory at all, the directory of generation 1
\* without a segment, segment 0 with only its header or with one frame, and
\* the directory of an older generation beside it.
StartStores ==
  LET left(k) == [g \in {1} |-> [i \in {0} |-> [exists |-> TRUE, hdr |-> Hdr(1),
                     frames |-> Chain(Hdr(1).ck, 1, [j \in 1..k |-> 1], 1)]]]
      old(gs) == [g \in DOMAIN gs \cup {2} |-> IF g = 2 THEN left(1)[1] ELSE gs[g]]
  IN {<< >>, [g \in {1} |-> << >>], left(0), left(1), old(left(0)), old(left(1)),
      old(<< >>)}

InitStart ==
  /\ dbFile = TRUE
  /\ tables = TRUE
  /\ \E s \in 0..2 :
       /\ wal = IF s = 0 THEN NoWAL
                ELSE [exists |-> TRUE, hdr |-> Hdr(s),
                      frames |-> Chain(Hdr(s).ck, s, <<1>>, 1)]
       /\ mx = IF s = 0 THEN 0 ELSE 1
  /\ walReset = FALSE
  /\ nextSalt = 3
  /\ conn = FALSE
  /\ rtx = FALSE
  /\ pageSize = 0
  /\ wlock = FALSE
  /\ genFile = GenName(1) \o <<NL>>
  /\ gens \in StartStores
  /\ nextGen = 3
  /\ pc = "idle"
  /\ op = "none"
  /\ changed = FALSE
  /\ ck = Ck0
  /\ ret = "none"
  /\ notifyN = 0
  /\ closed = FALSE
  /\ faults = 0
  /\ calls = 0
  /\ ghost = Ghost0
  /\ SideInit

SpecStart == InitStart /\ [][NextRestart]_vars

(***************************************************************************)
(* ShadowWALReader, followed on its own over shadow stores of one          *)
(* generation whose segments hold whole frames, or are shorter than a      *)
(* header.                                                                 *)
(***************************************************************************)
\* Highest segment index of the stores the reader and the prune are given.
MaxSegIndex == 2
\* Largest number of frames of a segment of those stores.
MaxSegFrames == 2

\* A shadow segment of k frames written under the header of salt 1; k = -1
\* stands for a file shorter than a header.
SegOfFrames(k) ==
  IF k < 0 THEN [exists |-> TRUE, hdr |-> NoHdr, frames |-> << >>]
  ELSE [exists |-> TRUE, hdr |-> Hdr(1),
        frames |-> Chain(Hdr(1).ck, 1, [i \in 1..k |-> 1], 1)]

\* The stores of generation 1: every choice of the indexes that exist and of
\* the length of each segment.
SegStores ==
  {[g \in {1} |-> [i \in I |-> SegOfFrames(len[i])]] :
     I \in SUBSET (0..MaxSegIndex), len \in [0..MaxSegIndex -> (0 - 1)..MaxSegFrames]}

\* The engine at rest (no call in flight) over the pointer file, the store
\* and the page size given.
AtRest(file, gs, ps) ==
  /\ dbFile = TRUE /\ tables = TRUE /\ wal = NoWAL /\ mx = 0 /\ walReset = FALSE
  /\ nextSalt = 1 /\ conn = FALSE /\ rtx = FALSE /\ pageSize = ps /\ wlock = FALSE
  /\ genFile = file /\ gens = gs /\ nextGen = 2
  /\ pc = "idle" /\ op = "none" /\ changed = FALSE /\ ck = Ck0 /\ ret = "none"
  /\ notifyN = 0 /\ closed = FALSE /\ faults = 0 /\ calls = 0 /\ ghost = Ghost0

\* shadowWALReader: the outcome of opening segment pos.index at pos.offset.
\* kind is "reader", "notexist" (os.Open fails) or "panic": on the error
\* return the deferred function calls r.Close() while r is nil, and the
\* dereference of r.f panics before the file is closed.  handles counts the
\* file handles the call leaves open, that of a returned reader included.
shadowWALReader(gs, pos, ps) ==
  IF ~SegExists(gs, pos.gen, pos.index)
  THEN [kind |-> "notexist", pos |-> pos, n |-> 0, handles |-> 0]
  ELSE LET fileSize == frameAlign(FileSize(gs[pos.gen][pos.index]), ps)
       IN IF pos.offset > fileSize
          THEN [kind |-> "panic", pos |-> pos, n |-> 0, handles |-> 1]
          ELSE [kind |-> "reader", pos |-> pos, n |-> fileSize - pos.offset, handles |-> 1]

\* ShadowWALReader that returns the reader of the position asked for even
\* when no bytes remain.
ShadowWALReaderNoNext(gs, pos, ps) ==
  LET r == shadowWALReader(gs, pos, ps)
  IN IF r.kind = "notexist" THEN [r EXCEPT !.kind = "err"] ELSE r

\* ShadowWALReader: the reader at pos when bytes remain, else the reader at
\* the start of the next segment, "eof" when that segment does not exist.
ShadowWALReader(gs, pos, ps) ==
  LET r == shadowWALReader(gs, pos, ps)
      next == [pos EXCEPT !.index = pos.index + 1, !.offset = 0]
      r2 == shadowWALReader(gs, next, ps)
  IN IF r.kind = "notexist" THEN [r EXCEPT !.kind = "err"]
     ELSE IF r.kind = "panic" THEN r
     ELSE IF r.n > 0 THEN r
     ELSE IF r2.kind = "notexist"
     THEN [kind |-> "eof", pos |-> next, n |-> 0, handles |-> r.handles]
     ELSE [r2 EXCEPT !.handles = r.handles + r2.handles]

\* The offsets asked for: the frame boundaries up to one frame past the
\* longest segment, and offsets off the boundaries.
ReaderOffsets ==
  {calcWALSize(PageSize, k) : k \in 0..(MaxSegFrames + 1)}
    \cup {0, WALHeaderSize + 1, calcWALSize(PageSize, 1) - 1}

InitReader ==
  /\ \E gs \in SegStores, ps \in {0, PageSize} : AtRest(GenName(1) \o <<NL>>, gs, ps)
  /\ SideInit

\* A replica calls ShadowWALReader(pos).
ShadowWALReaderCall ==
  /\ \E i \in 0..MaxSegIndex, o \in ReaderOffsets :
       LET pos == [gen |-> 1, index |-> i, offset |-> o]
       IN reader' = [pos |-> pos, res |-> ShadowWALReader(gens, pos, pageSize)]
  /\ UNCHANGED <<unitVars, engineVars, pruned, lockVars, restore>>

NextReader == ShadowWALReaderCall

SpecReader == InitReader /\ [][NextReader]_vars

(***************************************************************************)
(* cleanWAL, followed on its own: the current generation holds any choice  *)
(* of segments, a directory of an older generation may be left, and the    *)
(* replicas report any positions.                                          *)
(***************************************************************************)
\* Largest number of replicas of the database.
MaxReplicas == 2

\* Replica.LastPos() of one replica: the zero position, or a position in the
\* current generation (1) or in another one (2).
ReplicaPositions ==
  {NoPos} \cup {[gen |-> g, index |-> i] : g \in {1, 2}, i \in 0..MaxSegIndex}

\* The positions of the replicas of one database.
ReplicaSets == {P \in SUBSET ReplicaPositions : Cardinality(P) <= MaxReplicas}

\* The store gs with the directory of an older generation (2) beside it.
WithOldGeneration(gs) ==
  [g \in DOMAIN gs \cup {2} |-> IF g = 2 THEN [i \in {0} |-> SegOfFrames(1)] ELSE gs[g]]

\* The stores of generation 1 that differ in the indexes that exist: what a
\* segment holds is nothing to cleanWAL.
PruneStores ==
  {[g \in {1} |-> [i \in I |-> SegOfFrames(1)]] : I \in SUBSET (0..MaxSegIndex)}

InitPrune ==
  /\ \E gs \in PruneStores, old \in BOOLEAN :
       AtRest(GenName(1) \o <<NL>>, IF old THEN WithOldGeneration(gs) ELSE gs, PageSize)
  /\ SideInit

\* cleanWAL is called while the replicas are at the positions chosen.
CleanWALCall ==
  /\ \E positions \in ReplicaSets :
       /\ gens' = cleanWAL(genFile, gens, positions)
       /\ pruned' = [called |-> TRUE, before |-> gens, positions |-> positions]
  /\ UNCHANGED <<dbFile, tables, wal, mx, walReset, nextSalt, conn, rtx, pageSize, wlock,
                 genFile, nextGen, callVars, closed, faults, calls, ghost, reader,
                 lockVars, restore, unitVars>>

NextPrune == CleanWALCall

SpecPrune == InitPrune /\ [][NextPrune]_vars

(***************************************************************************)
(* The goroutines of one DB, followed on their own: the monitor, external  *)
(* callers of Sync, Checkpoint, CRC64, Notify and PageSize, and the caller *)
(* of SoftClose or Close.  What the calls do to the shadow WAL is followed *)
(* in Spec; here a call is the taking of db.mu, its effect on the          *)
(* connection, the read transaction and the replicas, and the release.     *)
(***************************************************************************)
\* The calls that take db.mu for writing, and those that take it for reading.
WriteOps == {"sync", "checkpoint", "crc64"}
ReadOps == {"notify", "pageSize"}

\* mu.Lock that returns whoever holds the mutex.
CanLockAlways(m) == TRUE

\* mu.Lock returns: nobody holds the mutex.
CanLock(m) == m.w = "none" /\ m.r = {}
\* mu.RLock that returns while the mutex is held for writing.
CanRLockAlways(m) == TRUE

\* mu.RLock returns: nobody holds the mutex for writing.
CanRLock(m) == m.w = "none"

\* wg.Wait that does not wait.
MonitorReturnedAlways == TRUE

\* wg.Wait returns: no monitor goroutine was started, or it has returned.
MonitorReturned == proc["monitor"].pc \in {"off", "exit"}

\* The engine's variables a call leaves alone here.
restVars == <<dbFile, tables, wal, mx, walReset, nextSalt, pageSize, wlock, genFile, gens,
              nextGen, callVars, closed, faults, calls, ghost>>

\* What call o does under db.mu: init opens the connection when there is
\* none, and unless db.ctx is cancelled acquires the read transaction and
\* starts the replicas; a checkpoint (always in Checkpoint, in Sync and CRC64
\* when ckpt) releases the read transaction and re-acquires it, which fails
\* once db.ctx is cancelled or the connection is closed.
CallEffect(o, ckpt) ==
  LET opens == ~conn /\ dbFile /\ o \in {"sync", "crc64"}
      initOK == opens /\ ~ctl.ctxDone
      usable == ~ctl.ctxDone /\ ~ctl.dbClosed
      goesOn == (conn \/ initOK) /\ (o = "sync" => usable)
      doCk == goesOn /\ (o = "checkpoint" \/ ckpt)
  IN [conn |-> conn \/ opens,
      rtx |-> IF doCk THEN usable ELSE IF initOK THEN TRUE ELSE rtx,
      replicas |-> IF initOK THEN "running" ELSE ctl.replicas]

InitCallers ==
  /\ AtRest(NoFile, << >>, 0)
  /\ reader = NoReader
  /\ pruned = NoPruned
  /\ mu = MuFree
  /\ \E m \in {"off", "select"} : proc = [Proc0 EXCEPT !["monitor"].pc = m]
  /\ ctl = Ctl0
  /\ restore = Restore0
  /\ UnitInit

\* The ticker of the monitor fires: it calls Sync.
MonitorTick ==
  /\ proc["monitor"].pc = "select"
  /\ proc' = [proc EXCEPT !["monitor"] = [pc |-> "lock", op |-> "sync"]]
  /\ UNCHANGED <<unitVars, engineVars, reader, pruned, restore, mu, ctl>>

\* The monitor sees db.ctx cancelled and returns.
MonitorExit ==
  /\ proc["monitor"].pc = "select" /\ ctl.ctxDone
  /\ proc' = [proc EXCEPT !["monitor"] = [pc |-> "exit", op |-> "none"]]
  /\ UNCHANGED <<unitVars, engineVars, reader, pruned, restore, mu, ctl>>

\* An external caller calls into the DB.
CallBegin ==
  /\ \E g \in Callers \ {"monitor"}, o \in WriteOps \cup ReadOps :
       /\ proc[g].pc = "idle"
       /\ proc' = [proc EXCEPT ![g] = [pc |-> "lock", op |-> o]]
  /\ UNCHANGED <<unitVars, engineVars, reader, pruned, restore, mu, ctl>>

\* mu.Lock returns to a caller of Sync, Checkpoint or CRC64.
Lock ==
  /\ \E g \in Callers :
       /\ proc[g].pc = "lock" /\ proc[g].op \in WriteOps
       /\ CanLock(mu)
       /\ mu' = [mu EXCEPT !.w = g]
       /\ proc' = [proc EXCEPT ![g].pc = "cs"]
  /\ UNCHANGED <<unitVars, engineVars, reader, pruned, restore, ctl>>

\* mu.RLock returns to a caller of Notify or PageSize.
RLock ==
  /\ \E g \in Callers :
       /\ proc[g].pc = "lock" /\ proc[g].op \in ReadOps
       /\ CanRLock(mu)
       /\ mu' = [mu EXCEPT !.r = @ \cup {g}]
       /\ proc' = [proc EXCEPT ![g].pc = "cs"]
  /\ UNCHANGED <<unitVars, engineVars, reader, pruned, restore, ctl>>

\* Sync, Checkpoint or CRC64 runs and returns: the deferred mu.Unlock.
CallReturn ==
  /\ \E g \in Callers, ckpt \in BOOLEAN :
       LET e == CallEffect(proc[g].op, ckpt)
       IN /\ proc[g].pc = "cs" /\ proc[g].op \in WriteOps
          /\ conn' = e.conn
          /\ rtx' = e.rtx
          /\ ctl' = [ctl EXCEPT !.replicas = e.replicas]
          /\ mu' = [mu EXCEPT !.w = "none"]
          /\ proc' = [proc EXCEPT ![g] = [pc |-> IF g = "monitor" THEN "select" ELSE "idle",
                                         op |-> "none"]]
  /\ UNCHANGED <<unitVars, restVars, reader, pruned, restore>>

\* Notify or PageSize returns: the deferred mu.RUnlock.  Notify returns
\* db.notify, which is open or closed at that moment.
ReadReturn ==
  /\ \E g \in Callers :
       /\ proc[g].pc = "cs" /\ proc[g].op \in ReadOps
       /\ mu' = [mu EXCEPT !.r = @ \ {g}]
       /\ proc' = [proc EXCEPT ![g] = [pc |-> "idle", op |-> "none"]]
       /\ notify' = IF proc[g].op # "notify" THEN notify
                    ELSE [notify EXCEPT !.ret[g] = IF notify.closed[notify.ch] > 0
                                                  THEN "closed" ELSE "open"]
  /\ UNCHANGED <<boot, decision, creation, traceVars, engineVars, reader, pruned, restore,
                 ctl>>

\* SoftClose begins (called directly or by Close): db.cancel().
SoftCloseCancel ==
  /\ ctl.closer = "idle"
  /\ \E o \in {"SoftClose", "Close"} :
       ctl' = [ctl EXCEPT !.closer = "cancelled", !.closeOp = o, !.ctxDone = TRUE]
  /\ UNCHANGED <<unitVars, engineVars, reader, pruned, restore, mu, proc>>

\* db.wg.Wait() returns.
SoftCloseWait ==
  /\ ctl.closer = "cancelled"
  /\ MonitorReturned
  /\ ctl' = [ctl EXCEPT !.closer = "waited"]
  /\ UNCHANGED <<unitVars, engineVars, reader, pruned, restore, mu, proc>>

\* Every replica is stopped.
SoftCloseStop ==
  /\ ctl.closer = "waited"
  /\ ctl' = [ctl EXCEPT !.closer = "stopped", !.replicas = "stopped"]
  /\ UNCHANGED <<unitVars, engineVars, reader, pruned, restore, mu, proc>>

\* The read transaction, when held, is rolled back; SoftClose returns.
SoftCloseRelease ==
  /\ ctl.closer = "stopped"
  /\ rtx' = FALSE
  /\ ctl' = [ctl EXCEPT !.closer = "softclosed"]
  /\ UNCHANGED <<unitVars, restVars, conn, reader, pruned, restore, mu, proc>>

\* Close, after its SoftClose: db.db.Close() when there is a connection.
CloseDB ==
  /\ ctl.closer = "softclosed" /\ ctl.closeOp = "Close"
  /\ ctl' = [ctl EXCEPT !.closer = "closed", !.dbClosed = conn]
  /\ UNCHANGED <<unitVars, engineVars, reader, pruned, restore, mu, proc>>

NextCallers ==
  \/ MonitorTick
  \/ MonitorExit
  \/ CallBegin
  \/ Lock
  \/ RLock
  \/ CallReturn
  \/ ReadReturn
  \/ SoftCloseCancel
  \/ SoftCloseWait
  \/ SoftCloseStop
  \/ SoftCloseRelease
  \/ CloseDB

SpecCallers == InitCallers /\ [][NextCallers]_vars

(***************************************************************************)
(* RestoreReplica, followed on its own.  The replica is the environment:   *)
(* SnapshotIndexAt and WALIndexAt return any indexes or fail, and every    *)
(* read of the replica and every write of a file may fail.                 *)
(***************************************************************************)
\* Highest snapshot or WAL index the replica reports.
MaxRestoreIndex == 2
\* Scaled stand-in for math.MaxInt64, the value of RestoreOptions.Index when
\* no index is asked for.
MaxInt64 == MaxRestoreIndex + 1

\* RestoreOptions: OutputPath ("" when not given), Generation ("" when not
\* given), Index, Timestamp (TRUE when not the zero time), DryRun.
RestoreOptionsSet ==
  [OutputPath : {"", "db"}, Generation : {"", "g"}, Index : 0..MaxInt64,
   Timestamp : BOOLEAN, DryRun : BOOLEAN]

\* Validation that accepts every option.
validateOptionsNone(opt) == ""

\* The validation of the options: the error, "" when they are valid.
validateOptions(opt) ==
  IF opt.OutputPath = "" THEN "output path required"
  ELSE IF opt.Generation = "" /\ opt.Index # MaxInt64
  THEN "must specify generation when restoring to index"
  ELSE IF opt.Index # MaxInt64 /\ opt.Timestamp
  THEN "cannot specify index & timestamp to restore"
  ELSE ""

\* The snapshot restored straight to the output path.
tmpPathIsOutput == "out"

\* tmpPath: the file the snapshot and the WAL segments are restored to.
tmpPath == "tmp"

InitRestore ==
  /\ AtRest(NoFile, << >>, 0)
  /\ reader = NoReader
  /\ pruned = NoPruned
  /\ mu = MuFree
  /\ proc = Proc0
  /\ ctl = Ctl0
  /\ UnitInit
  /\ \E c \in {NoContent, OldContent} :
       restore = [Restore0 EXCEPT !.out0 = c, !.fs.out = c]

\* A call ends with an error.
RestoreFails(r) == [r EXCEPT !.pc = "done", !.ret = "err"]

\* RestoreReplica up to the first write: the options are validated, the
\* output path is looked up, and the replica is asked for the indexes of the
\* snapshot and of the last WAL segment to restore.
RestoreBegin ==
  /\ restore.pc = "idle"
  /\ \E opt \in RestoreOptionsSet, found \in BOOLEAN,
        min \in 0..MaxRestoreIndex, max \in 0..MaxRestoreIndex :
       LET r == [restore EXCEPT !.opt = opt]
       IN restore' =
            IF validateOptions(opt) # "" THEN RestoreFails(r)
            ELSE IF ~opt.DryRun /\ r.fs.out # NoContent THEN RestoreFails(r)
            ELSE IF ~found THEN RestoreFails([r EXCEPT !.reads = @ + 1])
            ELSE [r EXCEPT !.pc = "snapshot", !.reads = @ + 1,
                           !.min = min, !.max = max, !.index = min]
  /\ UNCHANGED <<unitVars, engineVars, reader, pruned, lockVars>>

\* restoreSnapshot: the snapshot is copied to tmpPath.  "create": the file
\* cannot be created; "copy": the copy fails part way.
RestoreSnapshot ==
  /\ restore.pc = "snapshot"
  /\ IF restore.opt.DryRun THEN restore' = [restore EXCEPT !.pc = "wal"]
     ELSE \E out \in {"ok", "create", "copy"} :
            restore' =
              IF out = "create" THEN RestoreFails(restore)
              ELSE IF out = "copy"
              THEN RestoreFails([restore EXCEPT
                     !.reads = @ + 1,
                     !.fs[tmpPath] = [kind |-> "db", snapshot |-> "partial", wals |-> 0]])
              ELSE [restore EXCEPT
                      !.pc = "wal", !.reads = @ + 1,
                      !.fs[tmpPath] = [kind |-> "db", snapshot |-> "full", wals |-> 0]]
  /\ UNCHANGED <<unitVars, engineVars, reader, pruned, lockVars>>

\* The loop that takes every missing segment for a snapshot-only restore.
missingToleratedAlways(index, min, max) == TRUE

\* A segment the replica does not hold is passed over only when the range of
\* indexes is the single index of the snapshot.
missingTolerated(index, min, max) == index = min /\ index = max

\* One round of the loop over the WAL indexes: restoreWAL copies the segment
\* to <tmpPath>-wal and checkpoints it into tmpPath.  "notexist": the replica
\* has no such segment; "fail": the copy or the checkpoint statement fails;
\* "busy": the truncate checkpoint reports busy # 0.
RestoreWAL ==
  /\ restore.pc = "wal"
  /\ IF restore.index > restore.max THEN restore' = [restore EXCEPT !.pc = "rename"]
     ELSE IF restore.opt.DryRun THEN restore' = [restore EXCEPT !.index = @ + 1]
     ELSE \E out \in {"ok", "notexist", "fail", "busy"} :
            restore' =
              IF out = "notexist"
                 /\ missingTolerated(restore.index, restore.min, restore.max)
              THEN [restore EXCEPT !.pc = "rename", !.reads = @ + 1,
                                   !.snapshotOnly = TRUE, !.last = out]
              ELSE IF out = "notexist"
              THEN RestoreFails([restore EXCEPT !.reads = @ + 1, !.last = out])
              ELSE IF out \in {"fail", "busy"}
              THEN RestoreFails([restore EXCEPT !.reads = @ + 1, !.tmpWAL = TRUE,
                                                !.last = out])
              ELSE [restore EXCEPT !.reads = @ + 1, !.index = @ + 1,
                                   !.fs[tmpPath].wals = @ + 1,
                                   !.applied = Append(@, restore.index),
                                   !.last = out]
  /\ UNCHANGED <<unitVars, engineVars, reader, pruned, lockVars>>

\* The file at tmpPath is renamed to the output path.
RestoreRename ==
  /\ restore.pc = "rename"
  /\ IF restore.opt.DryRun THEN restore' = [restore EXCEPT !.pc = "done", !.ret = "ok"]
     ELSE \E out \in {"ok", "fail"} :
            restore' =
              IF out = "fail" THEN RestoreFails(restore)
              ELSE [restore EXCEPT
                      !.pc = "done", !.ret = "ok",
                      !.fs = [[restore.fs EXCEPT ![tmpPath] = NoContent]
                                EXCEPT !.out = restore.fs[tmpPath]]]
  /\ UNCHANGED <<unitVars, engineVars, reader, pruned, lockVars>>

NextRestore ==
  \/ RestoreBegin
  \/ RestoreSnapshot
  \/ RestoreWAL
  \/ RestoreRename

SpecRestore == InitRestore /\ [][NextRestore]_vars

(***************************************************************************)
(* init, followed on its own over what an earlier process may have left:   *)
(* any of its steps may fail, and the ticks that follow find what the      *)
(* failed run left behind.                                                 *)
(***************************************************************************)
\* The statements of init that can return an error, in the order init takes
\* them, and "ok" for the return at the end.
InitSteps ==
  <<"stat", "statdir", "open", "journal", "autockpt", "seq", "lock", "acquire",
    "pagesize", "mkdir", "removeptr", "clean", "ok">>

StepNo(out) == CHOOSE k \in 1..Len(InitSteps) : InitSteps[k] = out

\* A run of init that ends with out has completed step s.
Past(out, s) == StepNo(out) > StepNo(s)

\* init returns at once: it has set db.db before, or there is no database
\* file.
initSkipped == conn \/ ~dbFile

\* init that ends with out: what it leaves.  db.db is assigned by sql.Open,
\* before the statements that follow it can fail.
init(out, positions) ==
  LET q1 == IF Past(out, "seq") /\ ~tables THEN SqliteCommit(Sq, <<1>>) ELSE Sq
      file1 == IF Past(out, "removeptr") /\ ~verifyHeadersMatch(genFile, gens, q1.wal)
               THEN NoFile ELSE genFile
  IN [conn |-> Past(out, "open"),
      tables |-> tables \/ Past(out, "lock"),
      q |-> q1,
      rtx |-> Past(out, "acquire"),
      pageSize |-> IF Past(out, "pagesize") THEN PageSize ELSE pageSize,
      metaDir |-> boot.metaDir \/ Past(out, "mkdir"),
      file |-> file1,
      gens |-> IF out = "ok" THEN clean(file1, gens, positions) ELSE gens,
      replicas |-> IF out = "ok" THEN "running" ELSE ctl.replicas]

\* The outcomes init can have: the removal of the pointer file is attempted
\* only when the headers do not match.
InitOutcomes ==
  {out \in Outcomes({InitSteps[k] : k \in 1..Len(InitSteps)}) :
     out = "removeptr" => ~verifyHeadersMatch(genFile, gens, init("mkdir", {}).q.wal)}

\* init has run to its end in this process.
Initialised ==
  /\ tables /\ rtx /\ pageSize > 0 /\ boot.metaDir /\ ctl.replicas = "running"

\* What an earlier process left: a live WAL of one committed frame under the
\* header of salt s, and the shadow of generation 1.
LeftWAL(s) == [exists |-> TRUE, hdr |-> Hdr(s), frames |-> Chain(Hdr(s).ck, s, <<1>>, 1)]
LeftStores ==
  {<< >>, [g \in {1} |-> [i \in {0} |-> SegOfFrames(1)]],
   WithOldGeneration([g \in {1} |-> [i \in {0} |-> SegOfFrames(1)]])}

InitBoot ==
  /\ dbFile \in BOOLEAN
  /\ \E s \in 0..2 :
       /\ wal = IF s = 0 \/ ~dbFile THEN NoWAL ELSE LeftWAL(s)
       /\ mx = IF s = 0 \/ ~dbFile THEN 0 ELSE 1
       /\ nextSalt = IF s = 0 \/ ~dbFile THEN 1 ELSE s + 1
       /\ tables = (s # 0 /\ dbFile)
  /\ walReset = FALSE
  /\ conn = FALSE /\ rtx = FALSE /\ pageSize = 0 /\ wlock = FALSE
  /\ \E gs \in LeftStores :
       /\ gens = gs
       /\ genFile = IF gs = << >> THEN NoFile ELSE GenName(1) \o <<NL>>
       /\ boot = [Boot0 EXCEPT !.metaDir = (gs # << >>)]
  /\ nextGen = 3
  /\ pc = "idle" /\ op = "none" /\ changed = FALSE /\ ck = Ck0 /\ ret = "none"
  /\ notifyN = 0 /\ closed = FALSE /\ faults = 0 /\ calls = 0 /\ ghost = Ghost0
  /\ reader = NoReader
  /\ pruned = NoPruned
  /\ mu = MuFree
  /\ proc = Proc0
  /\ ctl = Ctl0
  /\ restore = Restore0
  /\ notify = Notify0
  /\ decision = Decision0
  /\ creation = Creation0
  /\ TraceInit

\* A tick of the monitor up to the return of init: Sync takes mu and calls
\* init, and returns when init fails or finds no database.
SyncInit ==
  /\ pc = "idle"
  /\ op' = "sync"
  /\ IF initSkipped
     THEN /\ boot' = [boot EXCEPT !.out = "skipped"]
          /\ IF conn THEN Goto("inited") /\ UNCHANGED <<changed, ck>> ELSE Return("ok")
          /\ UNCHANGED <<wal, mx, walReset, nextSalt, tables, conn, rtx, pageSize,
                         genFile, gens, ctl, faults>>
     ELSE \E out \in InitOutcomes, rp \in LastPositions(genFile, gens) :
            LET r == init(out, {rp})
            IN /\ Fault(out)
               /\ CanWrite(Sq, 1)
               /\ SetSq(r.q)
               /\ tables' = r.tables
               /\ conn' = r.conn
               /\ rtx' = r.rtx
               /\ pageSize' = r.pageSize
               /\ genFile' = r.file
               /\ gens' = r.gens
               /\ boot' = [out |-> out, metaDir |-> r.metaDir]
               /\ ctl' = [ctl EXCEPT !.replicas = r.replicas]
               /\ IF out = "ok" THEN Goto("inited") /\ UNCHANGED <<changed, ck>>
                  ELSE Return("err")
  /\ UNCHANGED <<dbFile, wlock, nextGen, notifyN, closed, calls, ghost, reader, pruned,
                 mu, proc, restore, notify, decision, creation, traceVars>>

\* The rest of the tick, which Spec follows: here it ends at once.  The
\* insert into _litestream_lock fails when init has not created the table;
\* what a tick does with part of init's state missing is left open.
SyncAfterInit ==
  /\ pc = "inited"
  /\ \E r \in {"ok", "err"} :
       /\ ~tables => r = "err"
       /\ Initialised => r = "ok"
       /\ Return(r)
  /\ UNCHANGED <<envVars, conn, rtx, pageSize, wlock, storeVars, op, notifyN, closed,
                 faults, calls, ghost, sideVars>>

NextBoot ==
  \/ SyncInit
  \/ SyncAfterInit
  \/ Unlock
  \/ ExtCreateDB

SpecBoot == InitBoot /\ [][NextBoot]_vars

(***************************************************************************)
(* The notification channel, followed on its own: Sync, when anything      *)
(* changed, closes db.notify and installs a new channel, in two statements *)
(* under mu; Notify() reads db.notify under mu.RLock.                      *)
(***************************************************************************)
InitNotify ==
  /\ AtRest(NoFile, << >>, 0)
  /\ reader = NoReader
  /\ pruned = NoPruned
  /\ mu = MuFree
  /\ proc = [Proc0 EXCEPT !["monitor"].pc = "select"]
  /\ ctl = Ctl0
  /\ restore = Restore0
  /\ UnitInit

\* Sync has run to its end with changed set: close(db.notify).
SyncNotifyClose ==
  /\ \E g \in Callers, ckpt \in BOOLEAN :
       LET e == CallEffect("sync", ckpt)
       IN /\ proc[g].pc = "cs" /\ proc[g].op = "sync"
          /\ notify.ch < MaxChan
          /\ e.conn
          /\ conn' = e.conn
          /\ rtx' = e.rtx
          /\ ctl' = [ctl EXCEPT !.replicas = e.replicas]
          /\ notify' = [notify EXCEPT !.closed[notify.ch] = @ + 1]
          /\ proc' = [proc EXCEPT ![g].pc = "notify"]
  /\ UNCHANGED <<boot, decision, creation, traceVars, restVars, reader, pruned, restore, mu>>

\* db.notify = make(chan struct{}), then Sync returns: the deferred
\* mu.Unlock.
SyncNotifyMake ==
  /\ \E g \in Callers :
       /\ proc[g].pc = "notify"
       /\ notify' = [notify EXCEPT !.ch = @ + 1]
       /\ mu' = [mu EXCEPT !.w = "none"]
       /\ proc' = [proc EXCEPT ![g] = [pc |-> IF g = "monitor" THEN "select" ELSE "idle",
                                      op |-> "none"]]
  /\ UNCHANGED <<boot, decision, creation, traceVars, engineVars, reader, pruned, restore,
                 ctl>>

NextNotify ==
  \/ MonitorTick
  \/ CallBegin
  \/ Lock
  \/ RLock
  \/ SyncNotifyClose
  \/ SyncNotifyMake
  \/ CallReturn
  \/ ReadReturn

SpecNotify == InitNotify /\ [][NextNotify]_vars

(***************************************************************************)
(* The checkpoint decision of a tick, followed on its own over any         *)
(* thresholds, interval, age of the database file and size of the shadow   *)
(* segment that the copy returned.                                         *)
(***************************************************************************)
\* Largest page threshold of the decisions followed.
MaxPageN == 3
\* Largest checkpoint interval of the decisions followed, in time units.
MaxInterval == 1

\* The interval test of the decision: since is time.Since(info.dbModTime),
\* zero tells that verify returned before reading the modification time.
Elapsed(interval, since, zero) == interval > 0 /\ ~zero /\ since > interval

Decisions ==
  [minPageN : 0..MaxPageN, maxPageN : 0..MaxPageN, interval : 0..MaxInterval,
   since : 0..(MaxInterval + 1), zero : BOOLEAN, pages : 0..(MaxPageN + 1),
   decided : {FALSE}, mode : {""}]

InitDecision ==
  /\ AtRest(NoFile, << >>, PageSize)
  /\ reader = NoReader
  /\ pruned = NoPruned
  /\ mu = MuFree
  /\ proc = Proc0
  /\ ctl = Ctl0
  /\ restore = Restore0
  /\ boot = Boot0
  /\ notify = Notify0
  /\ creation = Creation0
  /\ TraceInit
  /\ decision \in Decisions

\* The tick decides, syncWAL having returned the size of decision.pages
\* frames.
Decide ==
  /\ ~decision.decided
  /\ decision' =
       [decision EXCEPT
          !.decided = TRUE,
          !.mode = checkpointMode(calcWALSize(pageSize, decision.pages), pageSize,
                                  decision.minPageN, decision.maxPageN,
                                  Elapsed(decision.interval, decision.since,
                                          decision.zero))]
  /\ UNCHANGED <<engineVars, reader, pruned, lockVars, restore, boot, notify, creation,
                 traceVars>>

NextDecision == Decide

SpecDecision == InitDecision /\ [][NextDecision]_vars

(***************************************************************************)
(* createGeneration, followed statement by statement while readers of the  *)
(* pointer file (Pos, CurrentGeneration) read it at any moment.  Each      *)
(* statement may fail, and the call returns at the first failure.          *)
(***************************************************************************)
\* The pointer file is written in place.
generationTmpPathIsPointer == "generation"

\* The file WriteFile writes the new id to: generationNamePath + ".tmp".
generationTmpPath == "generation.tmp"

\* What a WriteFile that fails may leave: a part of the id.
Torn(name) == SubSeq(name, 1, GenerationNameLen \div 2)

InitGeneration ==
  /\ dbFile = TRUE /\ tables = TRUE /\ conn = TRUE /\ rtx = TRUE /\ pageSize = PageSize
  /\ \E s \in 1..2 : wal = LeftWAL(s) /\ nextSalt = s + 1
  /\ mx = 1 /\ walReset = FALSE /\ wlock = TRUE
  /\ \E gs \in LeftStores :
       /\ gens = gs
       /\ genFile = IF gs = << >> THEN NoFile ELSE GenName(1) \o <<NL>>
  /\ nextGen = 3
  /\ pc = "locked" /\ op = "sync" /\ changed = FALSE /\ ck = Ck0 /\ ret = "none"
  /\ notifyN = 0 /\ closed = FALSE /\ faults = 0 /\ calls = 0 /\ ghost = Ghost0
  /\ reader = NoReader
  /\ pruned = NoPruned
  /\ mu = MuFree
  /\ proc = Proc0
  /\ ctl = Ctl0
  /\ restore = Restore0
  /\ boot = Boot0
  /\ notify = Notify0
  /\ decision = Decision0
  /\ creation = Creation0
  /\ TraceInit

\* The call returns an error.
CreationFails(c) == [c EXCEPT !.pc = "done", !.ret = "err"]

GenerationRest ==
  <<dbFile, tables, wal, mx, walReset, nextSalt, conn, rtx, pageSize, wlock, callVars,
    closed, faults, calls, ghost, reader, pruned, lockVars, restore, boot, notify,
    decision, traceVars>>

\* The id is drawn and the directory of the generation is made.
GenMkdir ==
  /\ creation.pc = "idle" /\ nextGen <= MaxGen
  /\ nextGen' = nextGen + 1
  /\ \E ok \in BOOLEAN :
       LET c == [creation EXCEPT !.generation = nextGen, !.file0 = genFile,
                                 !.gens0 = gens, !.renamed = FALSE, !.ret = "none"]
       IN IF ok
          THEN /\ gens' = [y \in DOMAIN gens \cup {nextGen} |->
                             IF y = nextGen THEN << >> ELSE gens[y]]
               /\ creation' = [c EXCEPT !.pc = "init"]
          ELSE /\ UNCHANGED gens
               /\ creation' = CreationFails(c)
  /\ UNCHANGED <<genFile, GenerationRest>>

\* initShadowWALFile on segment 0: it fails before writing, or after the
\* header was written, or writes the header and the frames of the live WAL.
GenInitShadow ==
  /\ creation.pc = "init"
  /\ \E out \in {"ok", "write", "copy"} :
       LET r == initShadowWALFile(wal, pageSize)
           hdronly == [exists |-> TRUE, hdr |-> wal.hdr, frames |-> << >>]
       IN IF out = "write" \/ ~r.wrote
          THEN /\ UNCHANGED gens
               /\ creation' = CreationFails(creation)
          ELSE IF out = "copy" \/ r.err
          THEN /\ gens' = PutSeg(gens, creation.generation, 0, hdronly)
               /\ creation' = CreationFails(creation)
          ELSE /\ gens' = PutSeg(gens, creation.generation, 0, r.seg)
               /\ creation' = [creation EXCEPT !.pc = "tmp"]
  /\ UNCHANGED <<genFile, nextGen, GenerationRest>>

\* WriteFile of the id and a newline to the temporary file: a failure may
\* leave a part of it.
GenWriteTmp ==
  /\ creation.pc = "tmp"
  /\ \E ok \in BOOLEAN :
       LET name == GenName(creation.generation) \o <<NL>>
           content == IF ok THEN name ELSE Torn(name)
           c == IF ok THEN [creation EXCEPT !.pc = "rename"] ELSE CreationFails(creation)
       IN IF generationTmpPath = "generation"
          THEN genFile' = content /\ creation' = c
          ELSE genFile' = genFile /\ creation' = [c EXCEPT !.tmp = content]
  /\ UNCHANGED <<gens, nextGen, GenerationRest>>

\* os.Rename of the temporary file onto the pointer file.
GenRename ==
  /\ creation.pc = "rename"
  /\ \E ok \in BOOLEAN :
       IF ok
       THEN /\ genFile' = IF creation.tmp = NoFile THEN genFile ELSE creation.tmp
            /\ creation' = [creation EXCEPT !.pc = "clean", !.tmp = NoFile,
                                            !.renamed = TRUE]
       ELSE /\ UNCHANGED genFile
            /\ creation' = CreationFails(creation)
  /\ UNCHANGED <<gens, nextGen, GenerationRest>>

\* clean, and the return of the generation.
GenClean ==
  /\ creation.pc = "clean"
  /\ \E ok \in BOOLEAN, rp \in LastPositions(genFile, gens) :
       IF ok
       THEN /\ gens' = clean(genFile, gens, {rp})
            /\ creation' = [creation EXCEPT !.pc = "done", !.ret = "ok"]
       ELSE /\ UNCHANGED gens
            /\ creation' = CreationFails(creation)
  /\ UNCHANGED <<genFile, nextGen, GenerationRest>>

\* The caller has its result; a later tick may call again.
GenReturn ==
  /\ creation.pc = "done"
  /\ creation' = [creation EXCEPT !.pc = "idle", !.seen = {}]
  /\ UNCHANGED <<genFile, gens, nextGen, GenerationRest>>

\* A reader reads the pointer file during the call.
ReadPointer ==
  /\ creation.pc \notin {"idle", "done"}
  /\ creation' = [creation EXCEPT !.seen = @ \cup {genFile}]
  /\ UNCHANGED <<genFile, gens, nextGen, GenerationRest>>

NextGeneration ==
  \/ GenMkdir
  \/ GenInitShadow
  \/ GenWriteTmp
  \/ GenRename
  \/ GenClean
  \/ GenReturn
  \/ ReadPointer

SpecGeneration == InitGeneration /\ [][NextGeneration]_vars

(***************************************************************************)
(* frameAlign, followed on its own: it is called with any offset and any   *)
(* page size that are not negative (it asserts both), and called again on  *)
(* its own result.                                                         *)
(***************************************************************************)
\* Largest offset frameAlign is called with: past two frames of PageSize.
MaxOffset == 1200
\* The page sizes it is called with: 0 (before init has read the page size),
\* small ones and PageSize.
AlignPageSizes == {0, 1, 16, PageSize}

InitAlign ==
  /\ AtRest(NoFile, << >>, 0)
  /\ SideInit

\* One call per behaviour: the function keeps no state between calls.
FrameAlignCall ==
  /\ ~align.called
  /\ \E s \in 0..MaxOffset, p \in AlignPageSizes :
       align' = [offset |-> s, pageSize |-> p, out |-> frameAlign(s, p),
                 twice |-> frameAlign(frameAlign(s, p), p), called |-> TRUE]
  /\ UNCHANGED <<engineVars, reader, pruned, lockVars, restore, boot, notify, decision,
                 creation, copy, posCall>>

NextAlign == FrameAlignCall

SpecAlign == InitAlign /\ [][NextAlign]_vars

(***************************************************************************)
(* The copy of a tick, followed byte by byte.  The current shadow segment  *)
(* is its whole frames (in gens) and copy.tail more bytes: the start of a  *)
(* frame that a copy cut short has left.  io.CopyN may fail, or the        *)
(* process may be killed, after any part of the bytes is written; nothing  *)
(* truncates the file afterwards.  The bytes past the last whole frame are *)
(* followed for the current segment only.                                  *)
(***************************************************************************)
WALHeaderChecksumOffset == 24
WALFrameHeaderChecksumOffset == 16

\* The bytes of a frame that a cut write leaves: half a frame.
HalfFrame == FrameSize \div 2

\* readLastChecksumFrom that takes (0,0) for a file holding only a header.
readLastChecksumFromZero(seg, tail, ps) ==
  LET size == FileSize(seg) + tail
  IN IF size > WALHeaderSize
     THEN [err |-> FALSE, ck |-> seg.frames[FrameN(frameAlign(size, ps))].ck]
     ELSE [err |-> FALSE, ck |-> 0]

\* readLastChecksumFrom over a file of FileSize(seg) + tail bytes: [err, ck].
\* ReadAt fails at a negative offset and when 8 bytes are not there.
readLastChecksumFromBytes(seg, tail, ps) ==
  LET size == FileSize(seg) + tail
      sz == frameAlign(size, ps)
      offset == IF size > WALHeaderSize
                THEN ((sz - ps) - WALFrameHeaderSize) + WALFrameHeaderChecksumOffset
                ELSE WALHeaderChecksumOffset
  IN IF offset < 0 \/ offset + 8 > size THEN [err |-> TRUE, ck |-> 0]
     ELSE IF offset = WALHeaderChecksumOffset THEN [err |-> FALSE, ck |-> seg.hdr.ck]
     ELSE [err |-> FALSE, ck |-> seg.frames[FrameN(sz)].ck]

\* copyToShadowWAL up to the end of its validation loop: [err, seeded, seed,
\* origSize, lastCommitSize]; nothing is written yet.
copyScanned(seg, tail, live, ps) ==
  LET size == FileSize(seg) + tail
      sum == readLastChecksumFromBytes(seg, tail, ps)
      origSize == frameAlign(size, ps)
      orig == FrameN(origSize)
  IN IF ~live.exists \/ size < WALHeaderSize \/ headerByteOrder(seg.hdr) = "invalid"
     THEN [err |-> TRUE, seeded |-> FALSE, seed |-> 0, origSize |-> origSize,
           lastCommitSize |-> origSize]
     ELSE IF sum.err
     THEN [err |-> TRUE, seeded |-> FALSE, seed |-> 0, origSize |-> origSize,
           lastCommitSize |-> origSize]
     ELSE [err |-> FALSE, seeded |-> TRUE, seed |-> sum.ck, origSize |-> origSize,
           lastCommitSize |->
             origSize + ((ScanFrames(live, seg.hdr.salt, orig + 1, sum.ck, orig) - orig)
                         * FrameSize)]

\* copyToShadowWAL over a file of FileSize(seg) + tail bytes.  k >= 0: io.CopyN
\* fails after k bytes are written (k below the bytes to copy); k < 0: it
\* writes them all.  The bytes are written from origSize on, over the tail.
copyToShadowWALBytes(seg, tail, live, ps, k) ==
  LET p == copyScanned(seg, tail, live, ps)
      n == p.lastCommitSize - p.origSize
      w == IF k < 0 \/ k >= n THEN n ELSE k
      orig == FrameN(p.origSize)
      whole == w \div FrameSize
  IN IF p.err
     THEN [err |-> TRUE, seg |-> seg, tail |-> tail, newSize |-> 0, seeded |-> FALSE,
           seed |-> 0, from |-> orig, to |-> orig, cut |-> FALSE]
     ELSE [err |-> w < n,
           seg |-> [seg EXCEPT !.frames = SubSeq(seg.frames, 1, orig)
                                           \o SubSeq(live.frames, orig + 1, orig + whole)],
           tail |-> IF whole = 0 THEN Max({tail, w}) ELSE w % FrameSize,
           newSize |-> IF w < n THEN 0 ELSE p.lastCommitSize,
           seeded |-> TRUE, seed |-> p.seed, from |-> orig, to |-> orig + whole,
           cut |-> w < n]

\* The byte counts after which a copy of n bytes may be cut.
CutPoints(n) ==
  {k \in {0, HalfFrame, FrameSize, FrameSize + HalfFrame, 2 * FrameSize} : k < n}

\* The live WAL of salt s whose frames carry the commit fields flags.
CopyWAL(s, flags) ==
  [exists |-> TRUE, hdr |-> Hdr(s), frames |-> Chain(Hdr(s).ck, s, flags, 1)]

CopyFlags == {<<1>>, <<0, 1>>, <<1, 1>>, <<0, 0, 1>>, <<1, 0, 1>>, <<1, 0>>}

\* The database is open; the current segment, written by earlier ticks, is
\* the header of salt 1 and the frames of the live WAL up to one of its
\* commits, and ends on a frame boundary.
InitCopy ==
  /\ dbFile = TRUE /\ tables = TRUE
  /\ \E s \in {1, 2}, flags \in CopyFlags, k \in 0..MaxFrames :
       /\ k <= Len(flags) /\ (k > 0 => (flags[k] = 1 /\ s = 1))
       /\ wal = CopyWAL(s, flags)
       /\ mx = Len(flags)
       /\ nextSalt = s + 1
       /\ gens = (1 :> (0 :> [exists |-> TRUE, hdr |-> Hdr(1),
                              frames |-> SubSeq(CopyWAL(1, flags).frames, 1, k)]))
  /\ walReset = FALSE
  /\ conn = TRUE /\ rtx = TRUE /\ pageSize = PageSize /\ wlock = FALSE
  /\ genFile = GenName(1) \o <<NL>>
  /\ nextGen = 2
  /\ pc = "idle" /\ op = "none" /\ changed = FALSE /\ ck = Ck0 /\ ret = "none"
  /\ notifyN = 0 /\ closed = FALSE /\ faults = 0 /\ calls = 0 /\ ghost = Ghost0
  /\ SideInit

\* A tick from verify to the end of syncWAL: a new generation when verify
\* gives a reason (its first segment is written whole), else the copy to the
\* current segment, which may be cut, and on a restart the segment with the
\* next index.
CopyTick ==
  /\ pc = "idle"
  /\ LET i0 == verify(genFile, gens, wal, pageSize)
         g == i0.generation
         i == i0.shadowIdx
     IN IF i0.reason # ""
        THEN LET cg == createGeneration(gens, genFile, nextGen, wal, pageSize, {NoPos},
                                        "none")
             IN /\ nextGen <= MaxGen
                /\ gens' = cg.gens
                /\ genFile' = cg.file
                /\ nextGen' = nextGen + 1
                /\ copy' = [Copy0 EXCEPT !.ret = IF cg.err THEN "err" ELSE "ok",
                                         !.tail0 = copy.tail, !.new = TRUE]
                /\ UNCHANGED faults
        ELSE \E k \in {0 - 1} \cup CutPoints(copyScanned(gens[g][i], copy.tail, wal,
                                                         pageSize).lastCommitSize
                                             - copyScanned(gens[g][i], copy.tail, wal,
                                                           pageSize).origSize) :
               LET c == copyToShadowWALBytes(gens[g][i], copy.tail, wal, pageSize, k)
                   r == initShadowWALFile(wal, pageSize)
                   gs1 == PutSeg(gens, g, i, c.seg)
                   rotate == i0.restart /\ ~c.err
               IN /\ k >= 0 => faults < MaxFault
                  /\ faults' = IF k >= 0 THEN faults + 1 ELSE faults
                  /\ gens' = IF rotate /\ r.wrote THEN PutSeg(gs1, g, i + 1, r.seg) ELSE gs1
                  /\ copy' = [tail |-> IF rotate THEN 0 ELSE c.tail,
                              ret |-> IF c.err \/ (rotate /\ r.err) THEN "err" ELSE "ok",
                              tail0 |-> copy.tail, new |-> FALSE,
                              seeded |-> c.seeded, seed |-> c.seed, gen |-> g, idx |-> i,
                              from |-> c.from, to |-> c.to, cut |-> c.cut]
                  /\ UNCHANGED <<genFile, nextGen>>
  /\ UNCHANGED <<envVars, conn, rtx, pageSize, wlock, callVars, closed, calls, ghost,
                 reader, pruned, lockVars, restore, boot, notify, decision, creation,
                 align, posCall>>

NextCopy == CopyTick \/ ExtWrite

SpecCopy == InitCopy /\ [][NextCopy]_vars

(***************************************************************************)
(* Pos(), followed read by read while a tick creates a generation.  Pos    *)
(* takes no lock: it reads the pointer file, then the directory of the     *)
(* generation, then the size of the segment, and createGeneration may take *)
(* any of its steps between two of them.                                   *)
(***************************************************************************)
\* Calls of Pos() per behaviour.
MaxPosCall == 2

PosRest ==
  <<dbFile, tables, wal, mx, walReset, nextSalt, conn, rtx, pageSize, wlock, callVars,
    closed, faults, calls, ghost, reader, pruned, lockVars, restore, boot, notify,
    decision, creation, copy, align, genFile, gens, nextGen>>

\* CurrentGeneration(): without a generation Pos returns the zero position.
PosReadPointer ==
  /\ posCall.pc = "idle" /\ Len(posCall.rets) < MaxPosCall
  /\ LET generation == CurrentGenerationOf(genFile)
     IN posCall' =
          IF generation = NoGen
          THEN [posCall EXCEPT !.rets = Append(@, [gen |-> NoGen, index |-> 0,
                                                   offset |-> 0])]
          ELSE [posCall EXCEPT !.pc = "index", !.generation = generation]
  /\ UNCHANGED PosRest

\* CurrentShadowWALIndex(generation): 0 when the directory does not exist.
PosReadDir ==
  /\ posCall.pc = "index"
  /\ posCall' = [posCall EXCEPT
                   !.pc = "stat",
                   !.index = CurrentShadowWALIndexOf(gens, posCall.generation)]
  /\ UNCHANGED PosRest

\* os.Stat of the segment: offset 0 when it does not exist.
PosStat ==
  /\ posCall.pc = "stat"
  /\ LET g == posCall.generation
         i == posCall.index
         p == [gen |-> g, index |-> i,
               offset |-> IF SegExists(gens, g, i)
                          THEN frameAlign(FileSize(gens[g][i]), pageSize) ELSE 0]
     IN posCall' = [posCall EXCEPT !.pc = "idle", !.generation = NoGen, !.index = 0,
                                   !.rets = Append(@, p)]
  /\ UNCHANGED PosRest

NextPos ==
  \/ GenMkdir
  \/ GenInitShadow
  \/ GenWriteTmp
  \/ GenRename
  \/ GenClean
  \/ GenReturn
  \/ PosReadPointer
  \/ PosReadDir
  \/ PosStat

SpecPos == InitGeneration /\ [][NextPos]_vars

(***************************************************************************)
(* Properties.                                                             *)
(***************************************************************************)
\* Sync has returned r and mu is not released yet.
SyncReturned(r) == pc = "done" /\ op = "sync" /\ ret = r

\* The segment is header-only or its last frame ends a transaction.
EndsOnCommit(seg) ==
  Len(seg.frames) = 0 \/ seg.frames[Len(seg.frames)].commit # 0

\* C1: after every Sync that returns success over an open database, the
\* current shadow segment exists and is header-only or ends with a frame
\* whose commit field is non-zero; and no shadow segment at all ever ends
\* with a frame that follows the last valid commit frame of the live WAL.
C1_EndsOnCommit ==
  /\ \A g \in DOMAIN gens : \A i \in DOMAIN gens[g] : EndsOnCommit(gens[g][i])
  /\ (SyncReturned("ok") /\ conn) =>
       /\ CurrentGeneration # NoGen
       /\ SegExists(gens, CurrentGeneration, CurrentShadowWALIndex(CurrentGeneration))

\* A successful Sync has returned while the live WAL holds, right after the
\* last frame of the current shadow segment, a valid frame of an unfinished
\* transaction.
C1_Witness ==
  /\ SyncReturned("ok") /\ CurrentSegHasFrame
  /\ LET seg == gens[CurrentGeneration][CurrentShadowWALIndex(CurrentGeneration)]
         n == Len(seg.frames)
     IN /\ Len(wal.frames) > n
        /\ seg.hdr = wal.hdr
        /\ wal.frames[n + 1].commit = 0
        /\ wal.frames[n + 1].salt = wal.hdr.salt
        /\ wal.frames[n + 1].ck
             = Checksum(Checksum(seg.frames[n].ck, 0), wal.frames[n + 1].data)

\* C2: every copy of bytes from the live WAL into a shadow segment is made
\* while the engine holds write intent (the write lock of the tick's insert
\* into _litestream_lock, not yet rolled back).
C2_CopyUnderWriteIntent == ghost.copyHeld

\* C3: no frame is dropped across the rotation that follows a checkpoint:
\* when no operation failed and no third party touched the file, the old
\* segment holds, before segment index+1 is initialised, every frame that
\* was committed to the live WAL under the old header.
C3_NoFrameDropped == ghost.rot # "lost"

\* Positions of one generation in (index, offset) lexicographic order.
PosLE(p, q) == p.index < q.index \/ (p.index = q.index /\ p.offset <= q.offset)

\* From position p to position q the generation changed or q is not lower.
PosStep(p, q) == (p.gen # NoGen /\ q.gen = p.gen) => PosLE(p, q)

\* C4: while the generation does not change, no step of a tick, a checkpoint,
\* a CRC64 call or a prune makes the position Pos() returns lower in
\* (index, offset) lexicographic order.
C4_PosMonotone ==
  [][PosStep(PosOf(genFile, gens, pageSize), PosOf(genFile', gens', pageSize'))]_vars

\* The current generation has rotated to a segment above 0 that holds
\* frames, and cleanWAL has removed segment 0.
C4_Witness ==
  /\ Pos.gen # NoGen /\ Pos.index >= 1 /\ Pos.offset > WALHeaderSize
  /\ ~SegExists(gens, Pos.gen, 0)

\* C5: whenever a tick changed the shadow state (appended frames, created a
\* segment or started a generation), the notify channel has been closed by
\* the time the tick returns, whether it returns success or an error.
C5_NotifiedOnChange == (pc = "done" /\ op = "sync" /\ ghost.grew) => notifyN > 0

\* C6: no segment of any generation has an index above MaxIndex.
C6_IndexAtMostMax ==
  \A g \in DOMAIN gens : \A i \in DOMAIN gens[g] : i <= MaxIndex

\* C7: a tick that began over a live WAL truncated to 0 bytes while the
\* current shadow segment held a frame, and returned success, has started a
\* new generation: the pointer file names it, its segment 0 exists, and the
\* directory of the previous generation is deleted.
C7_TruncatedStartsGeneration ==
  (SyncReturned("ok") /\ ghost.trunc) =>
    /\ CurrentGeneration # NoGen
    /\ CurrentGeneration # ghost.gen0
    /\ genFile = GenName(CurrentGeneration) \o <<NL>>
    /\ SegExists(gens, CurrentGeneration, 0)
    /\ ghost.gen0 \notin DOMAIN gens

\* A successful tick has returned after a third party truncated the live WAL
\* to 0 bytes under a shadow segment that held a frame.
C7_Witness == SyncReturned("ok") /\ ghost.trunc /\ ghost.gen0 # NoGen

\* C8: a tick that found the last frame of the current shadow segment
\* different from the live WAL's frame at the same offset writes nothing to
\* the generation it began with, and when it returns success the current
\* generation is a new one.
C8_OverwrittenStartsGeneration ==
  ghost.overw =>
    /\ ~ghost.oldTouched
    /\ SyncReturned("ok") => (CurrentGeneration # NoGen /\ CurrentGeneration # ghost.gen0)

\* A successful tick has returned that found the last shadow frame
\* overwritten in the live WAL.
C8_Witness == SyncReturned("ok") /\ ghost.overw /\ ghost.gen0 # NoGen

\* The pointer file holds the 16 hex digits of generation g and a newline.
PointsTo(g) == g # NoGen /\ genFile = GenName(g) \o <<NL>> /\ Len(GenName(g)) = 16

\* C9: after the first tick over a newly created, empty database with no meta
\* directory, the pointer file holds a 16-hex-digit generation id g, which is
\* the only generation and has segment 0 only, and Pos() = (g, 0, size of
\* segment 0); unless a third party touched the live WAL, segment 0 holds
\* the live WAL's header followed by the frames that the creation of the
\* engine's tables committed: a prefix of the live WAL of more than 32 bytes.
C9_ColdStart ==
  (SyncReturned("ok") /\ ghost.cold) =>
    LET g == CurrentGeneration IN
    /\ PointsTo(g)
    /\ DOMAIN gens = {g} /\ DOMAIN gens[g] = {0}
    /\ faults = 0 =>
         /\ Len(gens[g][0].frames) >= 1
         /\ FileSize(gens[g][0]) > WALHeaderSize
         /\ gens[g][0].hdr = wal.hdr
         /\ Len(gens[g][0].frames) <= Len(wal.frames)
         /\ gens[g][0].frames = SubSeq(wal.frames, 1, Len(gens[g][0].frames))
    /\ Pos = [gen |-> g, index |-> 0, offset |-> FileSize(gens[g][0])]

\* The first tick over a newly created, empty database has returned success.
C9_Witness == SyncReturned("ok") /\ ghost.cold /\ conn

\* C9 as stated: after the cold-start tick segment 0 has exactly 32 bytes and
\* Pos() = (g, 0, 32).
C9_HeaderOnly ==
  (SyncReturned("ok") /\ ghost.cold) =>
    LET g == CurrentGeneration IN
    /\ PointsTo(g)
    /\ SegExists(gens, g, 0)
    /\ FileSize(gens[g][0]) = WALHeaderSize
    /\ Pos = [gen |-> g, index |-> 0, offset |-> WALHeaderSize]

\* C10: from initialisation until SoftClose the long-lived read transaction is
\* held whenever no checkpoint is executing, in particular after every
\* return of Sync, Checkpoint and CRC64.
C10_ReadTxHeld == (conn /\ ~closed) => rtx

\* C11: the write transaction of the tick is open only between its insert
\* into _litestream_lock and the rollback that ends it on every exit path
\* (success or error); it is never committed, so the table holds no row on
\* disk at any time.
C11_LockRolledBack ==
  /\ ghost.lockRows = 0
  /\ wlock => pc = "locked"
  /\ pc = "locked" => wlock

\* A tick has returned an error after its transaction began.
C11_Witness == SyncReturned("err") /\ conn /\ ~wlock /\ ghost.lockRows = 0

\* C13: after every tick that returns success over an open database, the
\* pointer file holds a well-formed generation id, the directory of that
\* generation exists and holds the current segment, and generations/ holds
\* no other directory.
C13_OnlyCurrentGeneration ==
  (SyncReturned("ok") /\ conn) =>
    LET g == CurrentGeneration IN
    /\ g # NoGen
    /\ Len(TrimSpace(genFile)) = GenerationNameLen
    /\ g \in DOMAIN gens
    /\ SegExists(gens, g, CurrentShadowWALIndex(g))
    /\ DOMAIN gens = {g}

\* A successful tick has returned that replaced the generation it began with.
C13_Witness ==
  /\ SyncReturned("ok") /\ conn
  /\ ghost.gen0 # NoGen /\ CurrentGeneration # ghost.gen0
  /\ DOMAIN gens = {CurrentGeneration}

\* C15: a tick that runs while the database file does not exist (and no
\* connection was opened before) returns success and changes nothing: no
\* connection is opened (so that init starts no replica), no read or write
\* transaction begins, the page size stays unread, the pointer file and the
\* shadow store stay as they are, and the notify channel is not closed.
C15_NoDatabaseNoOp ==
  [][(pc = "idle" /\ op' = "sync" /\ ~conn /\ ~dbFile) =>
       /\ pc' = "done" /\ ret' = "ok"
       /\ notifyN' = 0
       /\ UNCHANGED <<dbFile, tables, wal, mx, walReset, nextSalt, conn, rtx, pageSize,
                      wlock, genFile, gens, nextGen>>]_vars

\* A tick has returned over a database file that does not exist.
C15_Witness == SyncReturned("ok") /\ ~conn /\ ~dbFile /\ gens = << >> /\ genFile = NoFile

\* ShadowWALReader was called on an existing segment; its frame-aligned size.
ReaderCalled == reader.res.kind # "none" /\ SegExists(gens, reader.pos.gen, reader.pos.index)
ReaderFileSize == frameAlign(FileSize(gens[reader.pos.gen][reader.pos.index]), pageSize)

\* C16: ShadowWALReader(pos) with pos.offset greater than the frame-aligned
\* size of segment pos.index returns an error value: the call ends normally,
\* returns no reader and leaves no file handle open.
C16_OffsetTooHighIsError ==
  (ReaderCalled /\ reader.pos.offset > ReaderFileSize) =>
    /\ reader.res.kind = "err"
    /\ reader.res.handles = 0

\* C17: ShadowWALReader(pos) on an existing segment, pos.offset not above its
\* frame-aligned size: when bytes remain after pos.offset it returns a reader
\* at pos whose remaining count is the frame-aligned size less the offset;
\* when none remain it returns a reader at (generation, index+1, 0) if that
\* segment exists and end-of-stream if it does not.
C17_ReaderOrNextOrEOF ==
  (ReaderCalled /\ reader.pos.offset <= ReaderFileSize) =>
    IF ReaderFileSize - reader.pos.offset > 0
    THEN /\ reader.res.kind = "reader"
         /\ reader.res.pos = reader.pos
         /\ reader.res.n = ReaderFileSize - reader.pos.offset
    ELSE IF SegExists(gens, reader.pos.gen, reader.pos.index + 1)
    THEN /\ reader.res.kind = "reader"
         /\ reader.res.pos = [gen |-> reader.pos.gen, index |-> reader.pos.index + 1,
                              offset |-> 0]
    ELSE reader.res.kind = "eof"

\* A call at the end of a segment that holds frames has returned the reader
\* of the next segment, which holds frames too.
C17_Witness ==
  /\ ReaderCalled /\ reader.pos.offset = ReaderFileSize
  /\ ReaderFileSize > WALHeaderSize
  /\ reader.res.kind = "reader" /\ reader.res.pos.index = reader.pos.index + 1
  /\ reader.res.n > WALHeaderSize

\* The segments of generation g that the last call of cleanWAL deleted.
PrunedSegments(g) ==
  IF g \in DOMAIN pruned.before
  THEN {i \in DOMAIN pruned.before[g] : ~SegExists(gens, g, i)}
  ELSE {}

\* C14: cleanWAL deletes a segment only if it belongs to the current
\* generation and every replica is in that generation at an index more than
\* one above the segment's (index < m - 1, m being the lowest replica index
\* with positions of other generations counted as 0); without replicas, or
\* with m <= 0, it deletes nothing.  So, while no replica is beyond the
\* current index, the current segment, the segment just before the lowest
\* replica position and every segment that some replica has not passed stay.
C14_PruneBelowMinLessOne ==
  pruned.called =>
    LET g == CurrentGeneration
        cur == CurrentShadowWALIndexOf(pruned.before, g)
        P == pruned.positions
    IN /\ \A h \in DOMAIN pruned.before :
            \A i \in PrunedSegments(h) :
              /\ h = g
              /\ P # {}
              /\ \A p \in P : p.gen = g /\ i < p.index - 1
       /\ \A h \in DOMAIN pruned.before : h \in DOMAIN gens
       /\ (\A p \in P : p.gen = g => p.index <= cur) =>
            /\ cur \notin PrunedSegments(g)
            /\ \A p \in P : p.gen = g =>
                 \A i \in PrunedSegments(g) : i < p.index /\ i # p.index - 1

\* cleanWAL has deleted segment 0 and kept segment 1 of the current
\* generation, every replica being at index 2.
C14_Witness ==
  /\ pruned.called
  /\ PrunedSegments(CurrentGeneration) = {0}
  /\ SegExists(gens, CurrentGeneration, 1)
  /\ \A p \in pruned.positions : p.gen = CurrentGeneration /\ p.index = 2

\* The goroutines that are inside the critical section of Sync, Checkpoint
\* or CRC64.
InCriticalSection == {g \in Callers : proc[g].pc = "cs" /\ proc[g].op \in WriteOps}

\* C12: at most one of Sync, Checkpoint and CRC64 executes its critical
\* section on the DB at any time, however the monitor and the external
\* callers interleave; it is the goroutine that holds db.mu for writing,
\* and no reader holds db.mu meanwhile.
C12_MutualExclusion ==
  /\ Cardinality(InCriticalSection) <= 1
  /\ \A g \in InCriticalSection : mu.w = g /\ mu.r = {}

\* The monitor is inside Sync while one external caller waits to enter
\* Checkpoint and another to enter CRC64.
C12_Witness ==
  /\ InCriticalSection = {"monitor"}
  /\ proc["ext1"] = [pc |-> "lock", op |-> "checkpoint"]
  /\ proc["ext2"] = [pc |-> "lock", op |-> "crc64"]

\* SoftClose is past its wait for the monitor.
PastWait == ctl.closer \in {"waited", "stopped", "softclosed", "closed"}

\* C20: SoftClose cancels db.ctx and waits for the monitor: from the end of
\* the wait on (so when the replicas are stopped, and after SoftClose has
\* returned) the monitor has returned and is in no tick; it then stops every
\* replica and rolls back the read transaction, and leaves the connection
\* open: the connection is closed only by Close, after its SoftClose.
C20_SoftCloseOrder ==
  /\ [](PastWait => (ctl.ctxDone /\ proc["monitor"].pc \in {"off", "exit"}))
  /\ [](ctl.dbClosed => (ctl.closeOp = "Close" /\ ctl.closer = "closed"))
  /\ [][/\ (ctl.closer = "waited" /\ ctl'.closer = "stopped") => ctl'.replicas = "stopped"
        /\ (ctl.closer = "stopped" /\ ctl'.closer = "softclosed") => ~rtx'
        /\ ctl'.closer # ctl.closer => (conn' = conn /\ UNCHANGED <<mu, proc>>)
        /\ ctl'.dbClosed # ctl.dbClosed =>
             (ctl.closeOp = "Close" /\ ctl.closer = "softclosed")]_vars

\* SoftClose has returned over an open connection: the monitor has returned,
\* the replicas are stopped, the read transaction is rolled back and the
\* connection is open.
C20_Witness ==
  /\ ctl.closer = "softclosed" /\ ctl.closeOp = "SoftClose"
  /\ proc["monitor"].pc = "exit"
  /\ ctl.replicas = "stopped"
  /\ conn /\ ~rtx /\ ~ctl.dbClosed

\* The WAL segments a complete restore applies to the snapshot: those from
\* the snapshot's index to the last index, none when the replica holds no
\* WAL segment for the single index asked for ("snapshot only").
RestoredWALs ==
  IF restore.snapshotOnly \/ restore.max < restore.min THEN 0
  ELSE (restore.max - restore.min) + 1

\* C18: the output path of RestoreReplica comes into existence only through
\* the final rename, after the snapshot and every WAL segment were applied:
\* whatever step fails (snapshot copy, a WAL segment, the checkpoint, the
\* rename), nothing exists at the output path when the call returns the
\* error, and a file restored there is always a complete one.
C18_NoPartialOutput ==
  /\ restore.ret = "err" => restore.fs.out = restore.out0
  /\ restore.fs.out.kind = "db" =>
       /\ restore.pc = "done" /\ restore.ret = "ok"
       /\ restore.fs.out.snapshot = "full"
       /\ restore.fs.out.wals = RestoredWALs
  /\ restore.pc # "done" => restore.fs.out = restore.out0

\* RestoreReplica has failed on the second WAL segment, after the snapshot
\* and the first segment were restored to the temporary file.
C18_Witness ==
  /\ restore.pc = "done" /\ restore.ret = "err"
  /\ restore.fs.tmp.snapshot = "full" /\ restore.fs.tmp.wals = 1
  /\ restore.tmpWAL
  /\ restore.fs.out = NoContent

\* The options are invalid: no output path, an index without a generation,
\* or an index together with a timestamp.
InvalidOptions ==
  \/ restore.opt.OutputPath = ""
  \/ restore.opt.Index # MaxInt64 /\ restore.opt.Generation = ""
  \/ restore.opt.Index # MaxInt64 /\ restore.opt.Timestamp

C21_LaterTickCompletesInit == (pc = "inited") => Initialised

\* C22: each channel of db.notify is closed at most once, and Notify() never
\* returns a channel that is already closed: outside the critical section of
\* Sync db.notify is an open channel.
C22_NotifyOpenClosedOnce ==
  /\ \A c \in 0..MaxChan : notify.closed[c] <= 1
  /\ \A g \in Callers : notify.ret[g] # "closed"
  /\ mu.w = "none" => notify.closed[notify.ch] = 0

\* A caller got a channel from Notify() that Sync has closed since, and holds
\* it while another Sync is between its close and its make.
C22_Witness ==
  /\ \E g \in Callers : notify.ret[g] = "open"
  /\ notify.ch = 1 /\ notify.closed[0] = 1 /\ notify.closed[1] = 1
  /\ \E g \in Callers : proc[g].pc = "lock" /\ proc[g].op = "notify"

\* The tick is about to verify while a generation exists whose current
\* segment holds a frame under a header that differs from the live one.
HeaderChangedWithFrames ==
  /\ pc = "locked" /\ CurrentSegHasFrame /\ wal.exists /\ wal.hdr # NoHdr
  /\ wal.hdr # gens[CurrentGeneration][CurrentShadowWALIndex(CurrentGeneration)].hdr

\* The current segment is no longer than the live WAL and its last frame is
\* still in the live WAL at the same offset.
LastFrameKept ==
  LET g == CurrentGeneration
      i == CurrentShadowWALIndex(g)
  IN /\ frameAlign(FileSize(gens[g][i]), pageSize) <= FileSize(wal)
     /\ ~LastFrameOverwritten

\* From the store gs with current segment (g, i) to gs2 under the pointer
\* file2: the generation is kept, segment i has kept its frames and may have
\* gained some, and segment i + 1 exists under the header hdr.
RotatedTo(gs, g, i, file2, gs2, hdr) ==
  /\ CurrentGenerationOf(file2) = g
  /\ SegExists(gs2, g, i) /\ SegExists(gs2, g, i + 1)
  /\ gs2[g][i].hdr = gs[g][i].hdr
  /\ Len(gs2[g][i].frames) >= Len(gs[g][i].frames)
  /\ SubSeq(gs2[g][i].frames, 1, Len(gs[g][i].frames)) = gs[g][i].frames
  /\ gs2[g][i + 1].hdr = hdr
  /\ CurrentShadowWALIndexOf(gs2, g) = i + 1

\* C23: when the live header differs from that of a current segment that
\* holds a frame, that segment is no longer than the live WAL, its last frame
\* is unchanged in the live WAL and its index is below MaxIndex, the tick
\* keeps the generation, keeps and completes the segment, and starts segment
\* index + 1 under the new live header.
C23_RotateOnHeaderChange ==
  [][(/\ HeaderChangedWithFrames
      /\ LastFrameKept
      /\ CurrentShadowWALIndex(CurrentGeneration) < MaxIndex
      /\ pc' # "locked")
     => RotatedTo(gens, CurrentGeneration, CurrentShadowWALIndex(CurrentGeneration),
                  genFile', gens', wal.hdr)]_vars

\* A tick has rotated within its generation, before any checkpoint.
C23_Witness ==
  /\ op = "sync" /\ pc \in {"ckpt", "clean"} /\ ghost.verified = "restart"
  /\ CurrentGeneration = ghost.gen0
  /\ CurrentShadowWALIndex(CurrentGeneration) >= 1
  /\ gens[CurrentGeneration][CurrentShadowWALIndex(CurrentGeneration)].hdr = wal.hdr

\* C23 as stated: whenever the live header differs from that of a current
\* segment that holds a frame, the tick rotates within the generation.
C23_RotateWheneverHeaderChanged ==
  [][(HeaderChangedWithFrames /\ pc' # "locked")
     => RotatedTo(gens, CurrentGeneration, CurrentShadowWALIndex(CurrentGeneration),
                  genFile', gens', wal.hdr)]_vars

\* The tick is about to verify while a generation exists below MaxIndex whose
\* current segment has the live header, is no longer than the live WAL and
\* ends with a frame that is still in the live WAL at the same offset.
ShadowMatchesLive ==
  LET g == CurrentGeneration
      i == CurrentShadowWALIndex(g)
  IN /\ pc = "locked" /\ g # NoGen /\ i < MaxIndex /\ SegExists(gens, g, i)
     /\ wal.exists /\ wal.hdr # NoHdr /\ gens[g][i].hdr = wal.hdr
     /\ frameAlign(FileSize(gens[g][i]), pageSize) <= FileSize(wal)
     /\ (Len(gens[g][i].frames) >= 1 => ~LastFrameOverwritten)

\* From the store gs with current segment (g, i) to gs2 under the pointer
\* file2: nothing changed but segment i, which has kept its frames and gained
\* frames of the live WAL, the last of them the end of a transaction.
AppendedTo(gs, g, i, file, file2, gs2, live) ==
  LET old == gs[g][i].frames
      new == gs2[g][i].frames
  IN /\ file2 = file
     /\ DOMAIN gs2 = DOMAIN gs
     /\ \A h \in DOMAIN gs : DOMAIN gs2[h] = DOMAIN gs[h]
     /\ \A h \in DOMAIN gs : \A j \in DOMAIN gs[h] : (h # g \/ j # i) => gs2[h][j] = gs[h][j]
     /\ gs2[g][i].hdr = gs[g][i].hdr
     /\ Len(new) >= Len(old) /\ Len(new) <= Len(live.frames)
     /\ SubSeq(new, 1, Len(old)) = old
     /\ \A k \in (Len(old) + 1)..Len(new) : new[k] = live.frames[k]
     /\ Len(new) > Len(old) => new[Len(new)].commit # 0

\* C24: when the current segment, below MaxIndex, has the live header, is no
\* longer than the live WAL and ends with a frame unchanged in the live WAL,
\* verify and the copy keep the generation and the index and only append to
\* the current segment: the frames committed since, all of them when no third
\* party has interfered.
C24_AppendWhenMatching ==
  [][(ShadowMatchesLive /\ pc' # "locked")
     => /\ AppendedTo(gens, CurrentGeneration, CurrentShadowWALIndex(CurrentGeneration),
                      genFile, genFile', gens', wal)
        /\ faults = 0 =>
             Len(gens'[CurrentGeneration][CurrentShadowWALIndex(CurrentGeneration)].frames)
               = mx]_vars

\* A tick has appended frames to the segment it found, in the generation it
\* found.
C24_Witness ==
  /\ op = "sync" /\ pc \in {"ckpt", "clean"} /\ ghost.verified = "same" /\ ghost.grew
  /\ CurrentGeneration = ghost.gen0
  /\ Len(gens[CurrentGeneration][CurrentShadowWALIndex(CurrentGeneration)].frames) >= 2

\* The thresholds of the decision taken, in pages of the shadow segment.
MaxThresholdMet == decision.maxPageN > 0 /\ decision.pages >= decision.maxPageN
MinThresholdMet == decision.pages >= decision.minPageN

\* C25: the decision is a restart checkpoint when max_checkpoint_pages > 0
\* and the shadow segment holds that many pages, whatever the passive
\* threshold; otherwise a passive checkpoint when it holds
\* min_checkpoint_pages; and never a restart when max_checkpoint_pages = 0.
C25_PageThresholds ==
  decision.decided =>
    /\ MaxThresholdMet => decision.mode = "RESTART"
    /\ (~MaxThresholdMet /\ MinThresholdMet) => decision.mode = "PASSIVE"
    /\ decision.maxPageN = 0 => decision.mode # "RESTART"

\* Both thresholds are met, the lower one the passive one: restart.
C25_Witness ==
  /\ decision.decided /\ MaxThresholdMet /\ MinThresholdMet
  /\ decision.minPageN < decision.maxPageN /\ decision.mode = "RESTART"

\* The interval has passed since the modification time that verify read.
IntervalPassed == Elapsed(decision.interval, decision.since, decision.zero)

\* C26: when neither page threshold is met, the decision is a passive
\* checkpoint when the interval has passed since the modification time read
\* by verify and the shadow segment holds more than one frame, and no
\* checkpoint otherwise.
C26_IntervalCheckpoint ==
  (decision.decided /\ ~MaxThresholdMet /\ ~MinThresholdMet) =>
    decision.mode = IF IntervalPassed /\ decision.pages > 1 THEN "PASSIVE" ELSE ""

\* The interval alone makes a tick checkpoint.
C26_Witness ==
  /\ decision.decided /\ ~MaxThresholdMet /\ ~MinThresholdMet
  /\ IntervalPassed /\ decision.pages = 2 /\ decision.mode = "PASSIVE"

\* C26 as stated: one frame in the shadow segment is enough for the interval
\* checkpoint.
C26_IntervalCheckpointOneFrame ==
  (decision.decided /\ ~MaxThresholdMet /\ ~MinThresholdMet) =>
    decision.mode = IF decision.interval > 0 /\ decision.since > decision.interval
                       /\ ~decision.zero /\ decision.pages >= 1
                    THEN "PASSIVE" ELSE ""

\* The checkpoint of the call in flight has returned without error.
CheckpointReturned ==
  /\ ghost.stmt # "none"
  /\ pc \in {"seq", "cmp", "clean"} \/ (pc = "done" /\ ret = "ok")

\* C27: in Sync, Checkpoint() and CRC64 the checkpoint statement is executed
\* with the read transaction released and, in a tick, with the write
\* transaction rolled back, never while either is open; and the read
\* transaction is held again when the checkpoint returns without error.
C27_CheckpointOutsideTransactions ==
  /\ ghost.stmt # "held"
  /\ pc = "ckpt" => ~wlock
  /\ CheckpointReturned => (rtx /\ ~wlock)

\* A tick has checkpointed: its statement ran with no transaction open and
\* the read transaction is held again.
C27_Witness ==
  /\ op = "sync" /\ pc = "seq" /\ ghost.stmt = "free" /\ rtx /\ ~wlock

\* C28: createGeneration switches the pointer file only once the directory
\* and segment 0 of the new generation are written; until the rename the
\* pointer file is as it was and no directory that was there has gone or
\* changed; and a reader of the pointer file sees the previous content or
\* the whole new id, never a part of it.
C28_PointerSwitchedLast ==
  /\ (creation.pc # "idle" /\ ~creation.renamed) =>
       /\ genFile = creation.file0
       /\ \A g \in DOMAIN creation.gens0 : g \in DOMAIN gens /\ gens[g] = creation.gens0[g]
  /\ (creation.pc # "idle" /\ creation.renamed) =>
       /\ genFile = GenName(creation.generation) \o <<NL>>
       /\ SegExists(gens, creation.generation, 0)
       /\ gens[creation.generation][0].hdr = wal.hdr
  /\ creation.seen \subseteq {creation.file0, GenName(creation.generation) \o <<NL>>}

\* A call failed at the rename over a previous generation, which is left as
\* it was, and a reader read the pointer file meanwhile.
C28_Witness ==
  /\ creation.pc = "done" /\ creation.ret = "err" /\ ~creation.renamed
  /\ creation.tmp = GenName(creation.generation) \o <<NL>>
  /\ creation.file0 = GenName(1) \o <<NL>> /\ genFile = creation.file0
  /\ creation.seen # {}
  /\ SegExists(gens, creation.generation, 0) /\ SegExists(gens, 1, 0)

\* checkpointAndInit is about to read the live header again, and can read it.
HeaderReadAfterCheckpoint == pc = "cmp" /\ wal.exists /\ wal.hdr # NoHdr

\* C29: after the checkpoint and the write that follows it, segment index + 1
\* is started, under the live header, if and only if that header differs from
\* the one read before the checkpoint; when it is the same the shadow is left
\* as it is.
C29_RotateIffHeaderChanged ==
  [][(HeaderReadAfterCheckpoint /\ pc' # "cmp")
     => /\ wal.hdr = ck.hdr => gens' = gens
        /\ (wal.hdr # ck.hdr /\ SegExists(gens, ck.gen, ck.idx))
             => /\ SegExists(gens', ck.gen, ck.idx + 1)
                /\ gens'[ck.gen][ck.idx + 1].hdr = wal.hdr
                /\ CurrentShadowWALIndexOf(gens', ck.gen) = ck.idx + 1
        /\ SegExists(gens', ck.gen, ck.idx + 1) => wal.hdr # ck.hdr]_vars

\* A tick has started the next segment after its checkpoint restarted the
\* WAL.
C29_Witness ==
  /\ op = "sync" /\ pc = "clean" /\ ghost.stmt = "free" /\ ghost.rot # "none"
  /\ CurrentShadowWALIndex(CurrentGeneration) >= 1
  /\ gens[CurrentGeneration][CurrentShadowWALIndex(CurrentGeneration)].hdr = wal.hdr

\* Frame k of file f carries the salt of the header of f and the checksum
\* that continues the stored checksum before it (of the header for k = 1).
GoodFrame(f, k) ==
  LET prev == IF k = 1 THEN f.hdr.ck ELSE f.frames[k - 1].ck
      fr == f.frames[k]
  IN /\ fr.salt = f.hdr.salt
     /\ fr.ck = Checksum(Checksum(prev, fr.commit), fr.data)

\* The numbers of the live frames past the current shadow segment that have
\* the salt of the header and fail the checksum test.
BadLiveFrames ==
  LET n == Len(gens[CurrentGeneration][CurrentShadowWALIndex(CurrentGeneration)].frames)
  IN {k \in (n + 1)..Len(wal.frames) :
        wal.frames[k].salt = wal.hdr.salt /\ ~GoodFrame(wal, k)}

\* C30: every frame of every shadow segment carries the salt of the header
\* of its segment and the checksum that continues its predecessors'; and
\* when a live frame past the current segment fails the checksum test, the
\* copy of the tick stops before it, at the end of a transaction, and the
\* tick does not fail for it.
C30_OnlyValidFramesPersisted ==
  /\ [](\A g \in DOMAIN gens : \A i \in DOMAIN gens[g] :
          \A k \in 1..Len(gens[g][i].frames) : GoodFrame(gens[g][i], k))
  /\ [][(ShadowMatchesLive /\ BadLiveFrames # {} /\ pc' # "locked")
        => LET new == gens'[CurrentGeneration][CurrentShadowWALIndex(CurrentGeneration)]
           IN /\ Len(new.frames) < Min(BadLiveFrames)
              /\ EndsOnCommit(new)
              /\ faults' = faults => pc' # "done"]_vars

\* A tick has returned without error over a live WAL that holds, past the
\* frames copied, a frame failing the checksum test.
C30_Witness ==
  /\ SyncReturned("ok") /\ ghost.verified = "same" /\ CurrentSegHasFrame
  /\ gens[CurrentGeneration][CurrentShadowWALIndex(CurrentGeneration)].hdr = wal.hdr
  /\ BadLiveFrames # {}

\* C34: frameAlign(s, p) is 0 for s < 32 and 32 + floor((s-32)/(p+24))*(p+24)
\* otherwise, for every s >= 0 and p >= 0, and aligning its result again
\* gives the same result.
C34_FrameAlignFormulaIdempotent ==
  align.called =>
    /\ align.out = IF align.offset < 32 THEN 0
                   ELSE 32 + (((align.offset - 32) \div (align.pageSize + 24))
                              * (align.pageSize + 24))
    /\ align.twice = align.out

\* frameAlign was called with an offset inside the second frame of a WAL of
\* PageSize pages, and a page size of 0 was tried too.
C34_Witness ==
  /\ align.called /\ align.pageSize = PageSize
  /\ align.offset > calcWALSize(PageSize, 1) /\ align.out = calcWALSize(PageSize, 1)
  /\ align.twice = align.out

\* The segment the last tick copied to.
CopiedSeg == gens[copy.gen][copy.idx]

\* C31 (as amended): when the target segment holds only a header, the
\* running checksum that validates the first copied frame is seeded with the
\* checksum stored in that header; otherwise with the checksum stored in the
\* segment's last full frame.  The first frame copied carries the checksum
\* computed from that seed.
C31_SeedFromHeaderOrLastFrame ==
  copy.seeded =>
    /\ copy.seed = IF copy.from = 0 THEN CopiedSeg.hdr.ck
                   ELSE CopiedSeg.frames[copy.from].ck
    /\ copy.to > copy.from =>
         LET f == CopiedSeg.frames[copy.from + 1]
         IN f.ck = Checksum(Checksum(copy.seed, f.commit), f.data)

\* A tick copied frames into a segment that held only its header.
C31_Witness ==
  /\ copy.seeded /\ copy.ret = "ok" /\ copy.tail0 = 0
  /\ copy.from = 0 /\ copy.to > 0
  /\ copy.seed = CopiedSeg.hdr.ck /\ copy.seed # 0

\* C31 as stated: over a header-only segment the seed is (0,0).
C31_SeedZeroWhenHeaderOnly ==
  copy.seeded =>
    copy.seed = IF copy.from = 0 THEN 0 ELSE CopiedSeg.frames[copy.from].ck

\* C32: partial shadow writes cannot exist: at all times, also after a tick
\* that failed or was interrupted part-way through a copy, no shadow segment
\* holds a partial frame or a frame after its last commit frame.
C32_NoPartialShadowWrite ==
  /\ copy.tail = 0
  /\ \A g \in DOMAIN gens : \A i \in DOMAIN gens[g] : EndsOnCommit(gens[g][i])

\* C35: a tick that begins over a current segment whose size is not
\* frame-aligned (a trailing partial frame, a header followed by less than
\* one full frame included) does not fail: it resumes from the frame-aligned
\* size or starts a new generation.
C35_PartialFrameTolerated ==
  (copy.ret # "none" /\ copy.tail0 > 0 /\ ~copy.cut) => copy.ret = "ok"

\* The indexes from lo to hi in ascending order.
Ascending(lo, hi) == [k \in 1..((hi - lo) + 1) |-> (lo + k) - 1]

\* C33: RestoreReplica (not a dry run) applies the WAL segments in strictly
\* ascending index order from the snapshot index to the maximum index, each
\* one checkpointed with busy = 0 before the next; a missing segment is
\* passed over only when the range is the single index min = max, a restore
\* of the snapshot alone; any other missing segment, and a busy checkpoint,
\* end the call with an error before the rename.
C33_WALsAppliedInOrder ==
  ~restore.opt.DryRun =>
    /\ restore.applied = Ascending(restore.min, restore.min + Len(restore.applied) - 1)
    /\ Len(restore.applied) <= Max({0, (restore.max - restore.min) + 1})
    /\ restore.snapshotOnly =>
         /\ restore.min = restore.max /\ restore.applied = << >>
         /\ restore.last = "notexist"
         /\ restore.pc \in {"rename", "done"}
    /\ (restore.pc = "rename" \/ restore.fs.out.kind = "db") =>
         \/ restore.snapshotOnly
         \/ restore.applied = Ascending(restore.min, restore.max)
    /\ (restore.last = "busy" \/ (restore.last = "notexist" /\ ~restore.snapshotOnly)) =>
         /\ restore.pc = "done" /\ restore.ret = "err"
         /\ restore.fs.out = restore.out0

\* A restore of three segments has been renamed to the output path.
C33_Witness ==
  /\ restore.pc = "done" /\ restore.ret = "ok" /\ ~restore.opt.DryRun
  /\ restore.fs.out.kind = "db"
  /\ restore.applied = <<0, 1, 2>>

\* C36: a Pos() call that interleaves with a tick creating a new generation
\* returns a position in the old generation that is not lower than any
\* position it returned before, or a position in the new generation; it
\* never returns the old generation id with index and offset back at zero.
C36_PosNeverGoesBack ==
  \A j \in 1..Len(posCall.rets) : \A k \in 1..Len(posCall.rets) :
    (j < k /\ posCall.rets[j].gen # NoGen /\ posCall.rets[k].gen = posCall.rets[j].gen)
      => PosLE(posCall.rets[j], posCall.rets[k])

\* C37: at initialisation, when the pointer file names a generation but the
\* live WAL is missing, the current shadow segment is missing, or their
\* headers differ, the pointer file is removed and every generation
\* directory is deleted; the first tick starts a new generation, and the
\* old generation gets no segment, also when its segment held frames.
C37_StalePointerCleared ==
  ghost.stale =>
    /\ ghost.gen0 \notin DOMAIN gens
    /\ pc = "locked" => (genFile = NoFile /\ gens = << >>)
    /\ SyncReturned("ok") =>
         /\ CurrentGeneration \notin {NoGen, ghost.gen0}
         /\ DOMAIN gens = {CurrentGeneration}
         /\ SegExists(gens, CurrentGeneration, 0)

\* The first tick of a process that found a segment with a frame under a
\* header other than the live WAL's has returned: generation 1 is gone and a
\* new generation is current.
C37_Witness ==
  /\ SyncReturned("ok") /\ ghost.stale /\ ghost.gen0 = 1
  /\ wal.hdr = Hdr(2)
  /\ CurrentGeneration = 3 /\ DOMAIN gens = {3}

\* Every segment of gs is in gs2 with the same header, its frames the first
\* frames of the segment of gs2.
SegmentsKept(gs, gs2) ==
  \A g \in DOMAIN gs : \A i \in DOMAIN gs[g] :
    /\ SegExists(gs2, g, i)
    /\ gs2[g][i].hdr = gs[g][i].hdr
    /\ Len(gs2[g][i].frames) >= Len(gs[g][i].frames)
    /\ SubSeq(gs2[g][i].frames, 1, Len(gs[g][i].frames)) = gs[g][i].frames

\* C38: after a successful tick, a following tick with no write to the
\* database, the live WAL or the meta directory by any other party in
\* between starts no new generation, removes or rewrites no byte already in
\* a shadow segment, and leaves Pos() at or above its previous value.
C38_SecondTickKeepsAll ==
  [][ghost.quiet =>
        /\ CurrentGenerationOf(genFile') = CurrentGenerationOf(genFile)
        /\ SegmentsKept(gens, gens')
        /\ PosLE(PosOf(genFile, gens, pageSize), PosOf(genFile', gens', pageSize'))]_vars

\* From store gs to gs2 no byte of a surviving segment is rewritten, and the
\* segments that go are segments of generation g below index lo.
SegmentsKeptFrom(gs, gs2, g, lo) ==
  \A h \in DOMAIN gs : \A i \in DOMAIN gs[h] :
    /\ (h # g \/ i >= lo) => SegExists(gs2, h, i)
    /\ SegExists(gs2, h, i) =>
          /\ gs2[h][i].hdr = gs[h][i].hdr
          /\ Len(gs2[h][i].frames) >= Len(gs[h][i].frames)
          /\ SubSeq(gs2[h][i].frames, 1, Len(gs[h][i].frames)) = gs[h][i].frames

\* C38 as it holds: after a successful tick, a following tick with no write
\* by any other party in between, begun with the shadow WAL index below
\* MaxIndex, starts no new generation, rewrites no byte of a shadow segment,
\* removes only segments below the one before the current index (cleanWAL's
\* pruning of replicated segments), and leaves Pos() at or above its value.
C38_SecondTickKeepsUnpruned ==
  [][(ghost.quiet /\ (pc = "locked" => PosOf(genFile, gens, pageSize).index < MaxIndex)) =>
        /\ CurrentGenerationOf(genFile') = CurrentGenerationOf(genFile)
        /\ SegmentsKeptFrom(gens, gens', CurrentGenerationOf(genFile),
                            PosOf(genFile, gens, pageSize).index - 1)
        /\ PosLE(PosOf(genFile, gens, pageSize), PosOf(genFile', gens', pageSize'))]_vars

\* A second tick in a row, with no write by another party since the first
\* one, has returned without error over a shadow WAL that holds frames.
C38_Witness ==
  /\ ghost.quiet /\ op = "sync" /\ ret = "ok"
  /\ PosOf(genFile, gens, pageSize).offset > WALHeaderSize

====
